---- MODULE Spec2Model ----
(***************************************************************************)
(* Affinity ("favour") tracker of astrbot_plugin_Favour_Ultra: the         *)
(* response-tag parser, the finalize-time reconciliation against the       *)
(* flat-file store, the pending-update map and the cold-violence timer of  *)
(* src/main.py.                                                            *)
(*                                                                         *)
(* Text is a sequence of characters.  A character is a TLA+ string; the    *)
(* CJK characters of the source are written by their pinyin, the two       *)
(* fullwidth brackets and the fullwidth colon by "fw[", "fw]", "fw:".      *)
(* Three multi-character literals of the relationship pattern are one      *)
(* symbol each: MARK (the marker phrase), and the boolean literals in      *)
(* lower and upper case.                                                   *)
(***************************************************************************)
EXTENDS Integers, Sequences, FiniteSets, TLC

\* Python's None and an optional value: the empty tuple, or the value in a
\* one-element tuple.
None == <<>>

Some(x) == <<x>>

The(o) == o[1]

Min(S) == CHOOSE x \in S : \A y \in S : x <= y

Max(S) == CHOOSE x \in S : \A y \in S : x >= y

\* ------------------------------------------------------------ characters

hao == "hao"

gan == "gan"

du == "du"

jiang == "jiang"

di == "di"

shang == "shang"

sheng == "sheng"

chi == "chi"

ping == "ping"

MARK == "MARK"

OpenBrackets == {"[", "fw["}

CloseBrackets == {"]", "fw]"}

Brackets == OpenBrackets \cup CloseBrackets

Colons == {":", "fw:"}

Whitespace == {" ", "nl"}

BoolLiterals == {"true", "false", "TRUE", "FALSE"}

DigitVal == [c \in {"0", "1", "2", "3", "4", "5", "6", "7", "8", "9"} |->
               CASE c = "0" -> 0 [] c = "1" -> 1 [] c = "2" -> 2 [] c = "3" -> 3
                 [] c = "4" -> 4 [] c = "5" -> 5 [] c = "6" -> 6 [] c = "7" -> 7
                 [] c = "8" -> 8 [] c = "9" -> 9]

Digits == DOMAIN DigitVal

\* str.lower(): the only cased symbols of the alphabet are the boolean
\* literals and the Latin letters used in plain text.
LowerChar(c) ==
    CASE c = "TRUE" -> "true"
      [] c = "FALSE" -> "false"
      [] c = "X" -> "x"
      [] OTHER -> c

RECURSIVE Lower(_)
Lower(t) == IF t = <<>> THEN <<>> ELSE <<LowerChar(Head(t))>> \o Lower(Tail(t))

\* str.strip(): leading and trailing whitespace removed.
Strip(t) ==
    LET keep == {i \in 1..Len(t) : t[i] \notin Whitespace}
    IN  IF keep = {} THEN <<>> ELSE SubSeq(t, Min(keep), Max(keep))

Contains(t, S) == \E i \in 1..Len(t) : t[i] \in S

\* ---------------------------------------------------- the affinity pattern
\* favour_pattern, re.DOTALL:
\*   [\[fw[] [^brackets]*? (?:hao.*?gan|hao.*?du|gan.*?du) [^brackets]*? [\]fw]]

\* First bracket at or after p; Len(t)+1 when there is none.
RECURSIVE NextBracket(_, _)
NextBracket(t, p) ==
    IF p > Len(t) THEN Len(t) + 1
    ELSE IF t[p] \in Brackets THEN p
    ELSE NextBracket(t, p + 1)

\* [^brackets]*?[\]fw]] tried at p: the index of the closing bracket, 0 when
\* the next bracket is an opening one or there is none.
ClosingAt(t, b) == IF b <= Len(t) /\ t[b] \in CloseBrackets THEN b ELSE 0

TailEnd(t, p) == ClosingAt(t, NextBracket(t, p))

\* The least element of a set of positions, 0 when it is empty.
FirstOrZero(S) == IF S = {} THEN 0 ELSE Min(S)

\* The tail after the character at q, where q = 0 stands for no such
\* character.
TailAfter(t, q) == IF q = 0 THEN 0 ELSE TailEnd(t, q + 1)

FirstNonZero(a, b) == IF a # 0 THEN a ELSE b

\* c.*?<second> after a keyword character at p: the lazy .*? stops at the
\* first occurrence of `second` after which the tail matches.
LazyTo(t, p, second) ==
    TailAfter(t, FirstOrZero({q \in (p + 1)..Len(t) :
                                t[q] = second /\ TailEnd(t, q + 1) # 0}))

\* The alternation, in its order, tried at p: the end of the whole match or 0.
KeywordEnd(t, p) ==
    IF p > Len(t) THEN 0
    ELSE IF t[p] = hao THEN FirstNonZero(LazyTo(t, p, gan), LazyTo(t, p, du))
    ELSE IF t[p] = gan THEN LazyTo(t, p, du)
    ELSE 0

\* The alternative tried at p, where p = 0 stands for no position.
KeywordEndAt(t, p) == IF p = 0 THEN 0 ELSE KeywordEnd(t, p)

\* The pattern tried at i: the index of the match's last character, or 0.
FavourMatchEnd(t, i) ==
    IF t[i] \notin OpenBrackets THEN 0
    ELSE KeywordEndAt(t, FirstOrZero({p \in (i + 1)..(NextBracket(t, i + 1) - 1) :
                                        KeywordEnd(t, p) # 0}))

\* The spans <<first, last>> of the non-overlapping matches, left to right
\* (what findall and sub scan).
RECURSIVE FavourSpansFrom(_, _)
RECURSIVE FavourSpansNext(_, _, _)
FavourSpansNext(t, i, e) ==
    IF e # 0 THEN <<<<i, e>>>> \o FavourSpansFrom(t, e + 1)
    ELSE FavourSpansFrom(t, i + 1)

FavourSpansFrom(t, i) ==
    IF i > Len(t) THEN <<>> ELSE FavourSpansNext(t, i, FavourMatchEnd(t, i))

FavourSpans(t) == FavourSpansFrom(t, 1)

\* The texts of the given spans, in their order.
RECURSIVE SpanTexts(_, _)
SpanTexts(t, sp) ==
    IF sp = <<>> THEN <<>>
    ELSE <<SubSeq(t, Head(sp)[1], Head(sp)[2])>> \o SpanTexts(t, Tail(sp))

\* favour_pattern.findall(text)
FavourFindall(t) == SpanTexts(t, FavourSpans(t))

\* favour_pattern.sub("", text) and relationship_pattern.sub("", text): the
\* characters outside the given spans (the last span is cut first, which
\* leaves the indices of the earlier ones in place).
RECURSIVE RemoveSpans(_, _)
RemoveSpans(t, sp) ==
    IF sp = <<>> THEN t
    ELSE RemoveSpans(SubSeq(t, 1, sp[Len(sp)][1] - 1)
                       \o SubSeq(t, sp[Len(sp)][2] + 1, Len(t)),
                     SubSeq(sp, 1, Len(sp) - 1))

\* ------------------------------------------------------- configuration
\* DEFAULT_CONFIG, as read by __init__ when the configuration sets nothing.

default_favour == 0

admin_default_favour == 50

favour_increase_min == 1

favour_increase_max == 3

favour_decrease_min == 1

favour_decrease_max == 5

cold_violence_threshold == -50

\* The two bounds every write clamps to: max(-100, min(100, favour)).
min_bound == -100

max_bound == 100

ClampNone(v) == v

Clamp(v) == Max({min_bound, Min({max_bound, v})})

\* --------------------------------------------- one affinity tag's change

RECURSIVE DecimalValue(_)
DecimalValue(ds) ==
    IF ds = <<>> THEN 0
    ELSE 10 * DecimalValue(SubSeq(ds, 1, Len(ds) - 1)) + DigitVal[ds[Len(ds)]]

\* re.search(r'(\d+)', match_str): the first maximal run of digits, <<>> when
\* the match holds no digit.
FirstDigitRun(t) ==
    LET ds == {i \in 1..Len(t) : t[i] \in Digits}
    IN  IF ds = {} THEN <<>>
        ELSE LET s == Min(ds)
                 e == Max({j \in s..Len(t) : \A k \in s..j : t[k] \in Digits})
             IN  SubSeq(t, s, e)

\* val = abs(int(num_match.group(1))) if num_match else 0
TagValue(m) == DecimalValue(FirstDigitRun(Strip(Lower(m))))

DirectionChangeFlatNumber(match_str, val) ==
    IF Contains(match_str, {jiang, di})
    THEN Some(0 - Max({favour_decrease_min, Min({favour_decrease_max, val})}))
    ELSE IF Contains(match_str, {shang, sheng})
    THEN Some(Max({favour_increase_min, Min({favour_increase_max, val})}))
    ELSE IF Contains(match_str, {chi, ping})
    THEN Some(val)
    ELSE None

DirectionChangeUnclamped(match_str, val) ==
    IF Contains(match_str, {jiang, di}) THEN Some(0 - val)
    ELSE IF Contains(match_str, {shang, sheng}) THEN Some(val)
    ELSE IF Contains(match_str, {chi, ping}) THEN Some(0)
    ELSE None

\* The loop body of handle_llm_response for one match: temp_change, None
\* when the match holds no direction keyword.
DirectionChange(match_str, val) ==
    IF Contains(match_str, {jiang, di})
    THEN Some(0 - Max({favour_decrease_min, Min({favour_decrease_max, val})}))
    ELSE IF Contains(match_str, {shang, sheng})
    THEN Some(Max({favour_increase_min, Min({favour_increase_max, val})}))
    ELSE IF Contains(match_str, {chi, ping})
    THEN Some(0)
    ELSE None

TagChange(m) == DirectionChange(Strip(Lower(m)), TagValue(m))

\* The loop of handle_llm_response over the matches: the changes of those
\* that hold a direction keyword, in document order.
\* valid_changes.append, when there is a change
OptSeq(o) == IF o = None THEN <<>> ELSE <<The(o)>>

RECURSIVE ChangesOf(_)
ChangesOf(ms) ==
    IF ms = <<>> THEN <<>> ELSE OptSeq(TagChange(Head(ms))) \o ChangesOf(Tail(ms))

\* valid_changes
ValidChanges(t) == ChangesOf(FavourFindall(t))

LastValidChangeFirst(vc) == IF vc = <<>> THEN 0 ELSE vc[1]

RECURSIVE SumSeq(_)
SumSeq(vc) == IF vc = <<>> THEN 0 ELSE vc[1] + SumSeq(Tail(vc))

LastValidChangeSum(vc) == SumSeq(vc)

\* update_data['favour_change']: 0, or valid_changes[-1]
LastValidChange(vc) == IF vc = <<>> THEN 0 ELSE vc[Len(vc)]

\* ------------------------------------------------ the relationship pattern
\* relationship_pattern (no DOTALL):
\*   [\[fw[] \s* MARK \s* (.*?) \s* [:fw:] \s* (true|false) \s* [\]fw]]

RECURSIVE SkipWs(_, _)
SkipWs(t, p) ==
    IF p <= Len(t) /\ t[p] \in Whitespace THEN SkipWs(t, p + 1) ELSE p

\* From the colon at c: \s*(true|false)\s*[\]fw]] ; <<index of the boolean,
\* index of the closing bracket>> or <<0, 0>>.
RelClose(t, k, m) ==
    IF k <= Len(t) /\ t[k] \in BoolLiterals /\ m <= Len(t) /\ t[m] \in CloseBrackets
    THEN <<k, m>>
    ELSE <<0, 0>>

RelBool(t, k) == RelClose(t, k, SkipWs(t, k + 1))

RelRest(t, c) == RelBool(t, SkipWs(t, c + 1))

\* The pattern tried at i: [name, bool, last] or None.  j is the marker; the
\* greedy \s* takes the whitespace after it and the lazy group stops at the
\* first colon after which the rest matches; "." matches no line break.
RelGroups(t, name, rest) == Some([name |-> name, bool |-> t[rest[1]], last |-> rest[2]])

RelAtColon(t, j, c) ==
    IF c = 0 THEN None ELSE RelGroups(t, Strip(SubSeq(t, j + 1, c - 1)), RelRest(t, c))

RelAfterMarker(t, j) ==
    IF j > Len(t) \/ t[j] # MARK THEN None
    ELSE RelAtColon(t, j,
                    FirstOrZero({c \in (j + 1)..Len(t) :
                                   /\ t[c] \in Colons
                                   /\ RelRest(t, c)[1] # 0
                                   /\ ~ Contains(Strip(SubSeq(t, j + 1, c - 1)), {"nl"})}))

RelMatchAt(t, i) ==
    IF t[i] \notin OpenBrackets THEN None ELSE RelAfterMarker(t, SkipWs(t, i + 1))

RECURSIVE RelMatchesFrom(_, _)
RECURSIVE RelMatchesNext(_, _, _)
RelMatchesNext(t, i, m) ==
    IF m # None
    THEN <<[name |-> The(m).name, bool |-> The(m).bool,
            first |-> i, last |-> The(m).last]>>
           \o RelMatchesFrom(t, The(m).last + 1)
    ELSE RelMatchesFrom(t, i + 1)

RelMatchesFrom(t, i) ==
    IF i > Len(t) THEN <<>> ELSE RelMatchesNext(t, i, RelMatchAt(t, i))

\* relationship_pattern.findall(text), with each match's span
RelFindall(t) == RelMatchesFrom(t, 1)

RECURSIVE SpansOf(_)
SpansOf(ms) ==
    IF ms = <<>> THEN <<>> ELSE <<<<Head(ms).first, Head(ms).last>>>> \o SpansOf(Tail(ms))

RelSpans(t) == SpansOf(RelFindall(t))

\* update_data['relationship_update']: the last match's name when its
\* boolean is true and the name, stripped, is not empty; None otherwise.
RelationshipOf(rel_text, bool_str) ==
    IF LowerChar(bool_str) = "true" /\ rel_text # <<>> THEN Some(rel_text) ELSE None

RECURSIVE LastRelationshipGranted(_)
LastRelationshipGranted(ms) ==
    IF ms = <<>> THEN None
    ELSE IF RelationshipOf(Strip(ms[Len(ms)].name), ms[Len(ms)].bool) # None
    THEN RelationshipOf(Strip(ms[Len(ms)].name), ms[Len(ms)].bool)
    ELSE LastRelationshipGranted(SubSeq(ms, 1, Len(ms) - 1))

LastRelationship(ms) ==
    IF ms = <<>> THEN None
    ELSE RelationshipOf(Strip(ms[Len(ms)].name), ms[Len(ms)].bool)

RelationshipUpdate(t) == LastRelationship(RelFindall(t))

\* update_data, and whether it is parked.
UpdateData(has_favour_tag, favour_change, relationship_update) ==
    [favour_change |-> favour_change,
     relationship_update |-> relationship_update,
     park |-> has_favour_tag \/ relationship_update # None]

\* The parse of handle_llm_response.
ParseResponse(t) ==
    UpdateData(FavourFindall(t) # <<>>, LastValidChange(ValidChanges(t)),
               RelationshipUpdate(t))

\* relationship_pattern.sub("", text).strip()
StripRelationship(a) == Strip(RemoveSpans(a, RelSpans(a)))

\* The cleaning of one Plain component in cleanup_and_update_favour.
StripTags(t) == StripRelationship(RemoveSpans(t, FavourSpans(t)))

\* ------------------------------------------------------------ identities

\* User ids are strings of characters, as is_valid_userid reads them.
U1 == <<"1", "1">>

U2 == <<"2", "2">>

UBad == <<"3", "#">>

UEnvoy == <<"4", "4">>

UserIds == {U1, U2, UBad, UEnvoy}

\* Who sends chat messages; who sends the modify command and at whom.
ChatSenders == {U1}

ModifySenders == {U1, U2}

ModifyTargets == {U1, UBad}

\* string.ascii_letters + string.digits + "_-:@."
AllowedChars ==
    {"a", "b", "c", "d", "e", "f", "g", "h", "i", "j", "k", "l", "m", "n", "o",
     "p", "q", "r", "s", "t", "u", "v", "w", "x", "y", "z",
     "A", "B", "C", "D", "E", "F", "G", "H", "I", "J", "K", "L", "M", "N", "O",
     "P", "Q", "R", "S", "T", "U", "V", "W", "X", "Y", "Z",
     "0", "1", "2", "3", "4", "5", "6", "7", "8", "9", "_", "-", ":", "@", "."}

MaxUserIdLen == 64

is_valid_userid(userid) ==
    /\ Strip(userid) # <<>>
    /\ Len(Strip(userid)) <= MaxUserIdLen
    /\ \A i \in 1..Len(Strip(userid)) : Strip(userid)[i] \in AllowedChars

\* Python's None as a session id (global mode), and the one conversation
\* (event.unified_msg_origin) the events of the model come from.
NoSession == "null"

Origin == "s1"

\* PermLevel
UNKNOWN == -1

MEMBER == 0

HIGH == 1

ADMIN == 2

OWNER == 3

SUPERUSER == 4

level_threshold == 50

cold_violence_duration_minutes == 60

\* context.get_config()["admins_id"] and config["favour_envoys"]
admins_id == {U2}

favour_envoys == {UEnvoy}

\* ---------------------------------------------------------------- bounds

NumEvents == 2

MaxTicks == 2

\* The finalize hooks the framework fires in one run.
MaxFinalizes == 2

\* The pieces of a response the parser is checked on.
MaxTags == 3

\* The pieces of a response that is delivered as it is.
MaxPieces == 2

\* The pieces of a text that is cleaned on its own.
MaxStripPieces == 4

Events == 1..NumEvents

\* ----------------------------------------------------------------- state

VARIABLES
    is_global_favour,     \* config: one global scope, or one scope per conversation
    store,                \* haogan.json: the list of records
    global_data,          \* global_favour.json: user id -> optional value
    pending_updates,      \* message id -> optional update_data
    cold_violence_users,  \* user id -> optional expiration time
    now,                  \* datetime.now(), in minutes
    lock,                 \* file_manager.lock: 0 when free, else the holding event
    ev,                   \* the events: position in the handler and its locals
    nfin,                 \* the finalize hooks fired so far
    favour_records        \* favour.db: the rows of the table favour_records

vars == <<is_global_favour, store, global_data, pending_updates,
          cold_violence_users, now, lock, ev, nfin, favour_records>>

\* ------------------------------------------------------------- the store

Rec(u, sid, v, rel) ==
    [userid |-> u, session_id |-> sid, favour |-> v, relationship |-> rel]

\* _read_json under read_favour: the list, or the default [] when the read
\* raises.
read_favour(ok) == IF ok THEN store ELSE <<>>

Matching(data, u, sid) ==
    {i \in 1..Len(data) : data[i].userid = u /\ data[i].session_id = sid}

\* get_user_favour: the first record of (userid, session_id), or None.
FindRecord(data, u, sid) ==
    IF Matching(data, u, sid) = {} THEN None
    ELSE Some(data[Min(Matching(data, u, sid))])

get_user_favour(ok, u, sid) == FindRecord(read_favour(ok), u, sid)

UpdatedDataAppending(data, u, sid, favour, relationship) ==
    Append(data,
           Rec(u, sid,
               IF favour # None THEN Clamp(The(favour)) ELSE 0,
               IF relationship # None THEN The(relationship) ELSE <<>>))

\* The list update_user_favour writes back: the first matching record with
\* the given fields set, or a new record appended.
UpdatedData(data, u, sid, favour, relationship) ==
    IF Matching(data, u, sid) # {}
    THEN [data EXCEPT ![Min(Matching(data, u, sid))] =
            [@ EXCEPT !.favour = IF favour # None THEN Clamp(The(favour)) ELSE @,
                      !.relationship =
                          IF relationship # None THEN The(relationship) ELSE @]]
    ELSE Append(data,
                Rec(u, sid,
                    IF favour # None THEN Clamp(The(favour)) ELSE 0,
                    IF relationship # None THEN The(relationship) ELSE <<>>))

\* read_global_favour / get_user_global_favour
get_user_global_favour(ok, u) == IF ok THEN global_data[u] ELSE None

\* event is the message; its unified_msg_origin is its conversation.
_get_session_id(event) ==
    IF is_global_favour THEN NoSession ELSE event.unified_msg_origin

\* EXCLUSIVE_RELATIONSHIPS, as far as the alphabet of the model writes them.
EXCLUSIVE_RELATIONSHIPS == {"qi"}

\* any(keyword in rel for keyword in self.EXCLUSIVE_RELATIONSHIPS), for a
\* relationship that is not empty
IsExclusive(rel) == rel # <<>> /\ Contains(rel, EXCLUSIVE_RELATIONSHIPS)

\* ------------------------------------------------------------ permissions

\* What the group-member lookup answers: None when the event has no group,
\* is not an aiocqhttp event or the lookup raises; else the member's info.
MemberInfos ==
    {[role |-> "owner", level |-> 0], [role |-> "admin", level |-> 0],
     [role |-> "member", level |-> level_threshold], [role |-> "member", level |-> 0],
     [role |-> "unknown", level |-> 0]}

PermContexts == {None} \cup {Some(i) : i \in MemberInfos}

\* int(str(user_id).strip()) succeeds
IsIntString(u) ==
    /\ Strip(u) # <<>>
    /\ \A i \in 1..Len(Strip(u)) : Strip(u)[i] \in Digits

get_perm_level_failing_open(user_id, ctx) ==
    IF ctx = None THEN OWNER
    ELSE IF ~ IsIntString(user_id) THEN UNKNOWN
    ELSE IF DecimalValue(Strip(user_id)) = 0 THEN UNKNOWN
    ELSE IF user_id \in admins_id THEN SUPERUSER
    ELSE IF The(ctx).role = "owner" THEN OWNER
    ELSE IF The(ctx).role = "admin" THEN ADMIN
    ELSE IF The(ctx).role = "member"
    THEN (IF The(ctx).level >= level_threshold THEN HIGH ELSE MEMBER)
    ELSE UNKNOWN

get_perm_level(user_id, ctx) ==
    IF ctx = None THEN UNKNOWN
    ELSE IF ~ IsIntString(user_id) THEN UNKNOWN
    ELSE IF DecimalValue(Strip(user_id)) = 0 THEN UNKNOWN
    ELSE IF user_id \in admins_id THEN SUPERUSER
    ELSE IF The(ctx).role = "owner" THEN OWNER
    ELSE IF The(ctx).role = "admin" THEN ADMIN
    ELSE IF The(ctx).role = "member"
    THEN (IF The(ctx).level >= level_threshold THEN HIGH ELSE MEMBER)
    ELSE UNKNOWN

_get_user_perm_level(sender, ctx) ==
    IF sender \in admins_id THEN SUPERUSER ELSE get_perm_level(sender, ctx)

_check_permission_one_below(sender, ctx, required_level) ==
    _get_user_perm_level(sender, ctx) >= required_level - 1

_check_permission(sender, ctx, required_level) ==
    _get_user_perm_level(sender, ctx) >= required_level

_get_initial_favour_permission_first(sender, glob_ok, ctx) ==
    IF _get_user_perm_level(sender, ctx) >= OWNER \/ sender \in favour_envoys
    THEN Clamp(admin_default_favour)
    ELSE IF ~ is_global_favour /\ get_user_global_favour(glob_ok, sender) # None
    THEN The(get_user_global_favour(glob_ok, sender))
    ELSE Clamp(default_favour)

_get_initial_favour(sender, glob_ok, ctx) ==
    IF ~ is_global_favour /\ get_user_global_favour(glob_ok, sender) # None
    THEN The(get_user_global_favour(glob_ok, sender))
    ELSE IF _get_user_perm_level(sender, ctx) >= OWNER \/ sender \in favour_envoys
    THEN Clamp(admin_default_favour)
    ELSE Clamp(default_favour)

\* What _get_initial_favour meets when a handler calls it for want of a
\* record: whether global_favour.json can be read, and the sender's
\* group-member info.
InitialInputs(rec, glob_ok, ctx) ==
    IF rec # None THEN None ELSE Some([glob_ok |-> glob_ok, ctx |-> ctx])

\* --------------------------------------------------------- reconciliation
\* The computation of cleanup_and_update_favour between its read of the
\* record and its call of update_user_favour.

ReconcileResult(old_favour, new_favour, old_relationship, final_relationship, write, arg_favour, arg_relationship, found) ==
    [old_favour |-> old_favour, new_favour |-> new_favour,
     old_relationship |-> old_relationship,
     final_relationship |-> final_relationship,
     write |-> write, arg_favour |-> arg_favour,
     arg_relationship |-> arg_relationship, found |-> found]

ReconcileExistingKeeping(rec, change_n, relationship_update) ==
    LET old_favour == rec.favour
        new_favour == Clamp(old_favour + change_n)
        old_relationship == rec.relationship
        final_relationship == IF relationship_update # None
                              THEN The(relationship_update) ELSE old_relationship
        favour_changed == new_favour # old_favour
        relationship_changed == final_relationship # old_relationship
    IN  ReconcileResult(old_favour, new_favour, old_relationship, final_relationship,
                        favour_changed \/ relationship_changed,
                        IF favour_changed THEN Some(new_favour) ELSE None,
                        IF relationship_changed THEN Some(final_relationship) ELSE None,
                        TRUE)

\* A record exists.
ReconcileExisting(rec, change_n, relationship_update) ==
    LET old_favour == rec.favour
        new_favour == Clamp(old_favour + change_n)
        old_relationship == rec.relationship
        granted == IF relationship_update # None
                   THEN The(relationship_update) ELSE old_relationship
        final_relationship ==
            IF new_favour < 0 /\ old_relationship # <<>> THEN <<>> ELSE granted
        favour_changed == new_favour # old_favour
        relationship_changed == final_relationship # old_relationship
    IN  ReconcileResult(old_favour, new_favour, old_relationship, final_relationship,
                        favour_changed \/ relationship_changed,
                        IF favour_changed THEN Some(new_favour) ELSE None,
                        IF relationship_changed THEN Some(final_relationship) ELSE None,
                        TRUE)

ReconcileNewUnrevoked(initial_favour, change_n, relationship_update) ==
    LET new_favour == Clamp(initial_favour + change_n)
        granted == IF relationship_update # None
                   THEN The(relationship_update) ELSE <<>>
    IN  ReconcileResult(initial_favour, new_favour, <<>>, granted,
                        TRUE, Some(new_favour), Some(granted), FALSE)

\* No record exists: the new user's record.
ReconcileNew(initial_favour, change_n, relationship_update) ==
    LET new_favour == Clamp(initial_favour + change_n)
        granted == IF relationship_update # None
                   THEN The(relationship_update) ELSE <<>>
        final_relationship ==
            IF new_favour < 0 /\ granted # <<>> THEN <<>> ELSE granted
    IN  ReconcileResult(initial_favour, new_favour, <<>>, final_relationship,
                        TRUE, Some(new_favour), Some(final_relationship), FALSE)

ArmConditionAnyDelta(change_n, new_favour) == new_favour <= cold_violence_threshold

\* The condition under which cleanup_and_update_favour arms cold violence.
ArmCondition(change_n, new_favour) ==
    new_favour <= cold_violence_threshold /\ change_n < 0

\* The on_trigger reply appended to the result chain: "\n" and the
\* sentence, one symbol.
TriggerMessage == <<"nl", "TRIGGER">>

\* Part 2 of cleanup_and_update_favour: every non-empty Plain text is
\* cleaned; a text that cleans to nothing is dropped.
\* new_chain.append, unless the cleaned text is empty
CleanedPlain(cleaned_text) == IF cleaned_text # <<>> THEN <<cleaned_text>> ELSE <<>>

RECURSIVE CleanChain(_)
CleanChain(chain) ==
    IF chain = <<>> THEN <<>>
    ELSE (IF Head(chain) = <<>> THEN <<Head(chain)>>
          ELSE CleanedPlain(StripTags(Head(chain))))
         \o CleanChain(Tail(chain))

\* ----------------------------------------------------------- the inputs

TUp2 == <<"[", hao, gan, du, " ", shang, sheng, "fw:", "2", "]">>

TDown3 == <<"[", hao, gan, du, " ", jiang, di, "fw:", "3", "]">>

TDown15 == <<"[", hao, gan, du, " ", jiang, di, "fw:", "1", "5", "]">>

TFlat == <<"[", hao, gan, du, " ", chi, ping, "]">>

TGrant == <<"[", MARK, "qi", ":", "true", "]">>

\* The model responses of the full system: no tag; a decrease; an increase
\* and a granted relationship; an increase, a decrease and a granted
\* relationship.
ResponseTexts ==
    {<<"x">>, TDown3, TUp2 \o TGrant, TUp2 \o TDown3 \o TGrant}

\* What reading haogan.json may do: succeed (TRUE) or raise (FALSE).
ReadOutcomes == {TRUE}

\* The group-member lookups of a chat event and of a command event.
ChatContexts == {None, Some([role |-> "owner", level |-> 0])}

\* The responses the parser is checked on: up to MaxTags pieces in a row,
\* each an affinity tag (an increase, two decreases, a decrease without a
\* number, an unchanged without and with a number, one with no direction), a
\* relationship tag or plain text.
TNoDirection == <<"[", hao, gan, du, "fw:", "9", "]">>

TDownNoNumber == <<"[", hao, gan, du, " ", jiang, di, "]">>

TFlat9 == <<"[", hao, gan, du, " ", chi, ping, "fw:", "9", "]">>

TagPieces ==
    {TUp2, TDown3, TDown15, TDownNoNumber, TFlat, TFlat9, TNoDirection, TGrant,
     <<"x">>}

RECURSIVE TextsOf(_)
TextsOf(n) ==
    IF n = 0 THEN {<<>>} ELSE {p \o t : p \in TagPieces, t \in TextsOf(n - 1)}

ParseTexts == UNION {TextsOf(n) : n \in 1..MaxTags}

\* The relationship tags the parser is checked on: a grant, a refusal, a
\* grant of another name with blanks, a fullwidth colon and an upper-case
\* boolean, and a grant without a name; up to MaxTags of them in a row.
TRefuse == <<"[", MARK, "qi", ":", "false", "]">>

TGrantX == <<"[", MARK, " ", "x", " ", "fw:", "TRUE", "]">>

TGrantNameless == <<"[", MARK, " ", ":", "true", "]">>

RelPieces == {TGrant, TRefuse, TGrantX, TGrantNameless}

RECURSIVE RelTextsOf(_)
RelTextsOf(n) ==
    IF n = 0 THEN {<<>>} ELSE {p \o t : p \in RelPieces, t \in RelTextsOf(n - 1)}

RelTexts == UNION {RelTextsOf(n) : n \in 1..MaxTags}

\* A relationship tag with a second boolean after the grant.
TGrantUnique == <<"[", MARK, "qi", ":", "true", ":", "true", "]">>

TGrantNotUnique == <<"[", MARK, "qi", ":", "true", ":", "false", "]">>

UniqueTexts == {TGrantUnique, TGrantNotUnique}

\* The responses that are delivered as they are: up to MaxPieces pieces in
\* a row, each an increase, an unchanged with a number, a tag with no
\* direction or plain text.
DeliverPieces == {TUp2, TFlat9, TNoDirection, <<"x">>}

RECURSIVE DeliverTextsOf(_)
DeliverTextsOf(n) ==
    IF n = 0 THEN {<<>>}
    ELSE {p \o t : p \in DeliverPieces, t \in DeliverTextsOf(n - 1)}

DeliverTexts == UNION {DeliverTextsOf(n) : n \in 1..MaxPieces}

\* The first messages of users: who sends them, what global_favour.json
\* holds (nothing, or a value for the first user, in range or not: the file
\* is read as it is found), what the sender's group-member lookup answers,
\* and the responses (an increase, a decrease with a granted relationship,
\* a granted relationship alone).
InitialSenders == {U1, UEnvoy}

GlobalFiles ==
    {[u \in UserIds |-> None],
     [u \in UserIds |-> IF u = U1 THEN Some(max_bound) ELSE None],
     [u \in UserIds |-> IF u = U1 THEN Some(max_bound + 50) ELSE None]}

InitialContexts ==
    {None, Some([role |-> "owner", level |-> 0]), Some([role |-> "admin", level |-> 0])}

InitialTexts == {TUp2, TDown3 \o TGrant, TGrant}

\* The texts the cleaning is checked on: up to MaxStripPieces pieces in a
\* row, each a bracket, the affinity keyword, a bracketed word with and without
\* a keyword character, an affinity tag, a relationship tag or a blank.
TBracketedHao == <<"[", hao, "]">>

TBracketedWord == <<"[", "x", "]">>

StripPieces ==
    {<<"[">>, <<"]">>, <<hao, gan>>, TBracketedHao, TBracketedWord, TUp2, TGrant,
     <<" ">>}

RECURSIVE StripTextsOf(_)
StripTextsOf(n) ==
    IF n = 0 THEN {<<>>}
    ELSE {p \o t : p \in StripPieces, t \in StripTextsOf(n - 1)}

StripTexts == UNION {StripTextsOf(n) : n \in 1..MaxStripPieces}

\* The result chains a finalize hook meets: no chain, or one Plain text that
\* still holds a tag.
ResultChains == {<<>>, <<<<"x", " ">> \o TUp2>>}

\* The records of the chat sender the store may hold at start-up: none, or
\* one of these values and relationships.
InitRecords ==
    {<<-99, <<>>>>, <<-48, <<>>>>, <<-48, <<"x">>>>, <<2, <<"x">>>>, <<99, <<>>>>}

\* The values an administrator gives to the modify command (None: not an
\* integer).
ModifyValues == {None, Some(-60), Some(101)}

\* ----------------------------------------------------------- the events
\* An event is one incoming message; its message id is its index.  pc is
\* the await the event's current handler is suspended at; the fields from
\* prompt to data are the handler's locals, which are dropped when it
\* returns.  cmd is what a command message brings (its argument, its value
\* and what the group-member lookup answers for its sender), shown the
\* record a query replies with, backup the backup file a clear has written,
\* error whether an exception of the event's handlers has been logged.

NewEvent ==
    [pc |-> "new", kind |-> "none", sender |-> U1, unified_msg_origin |-> Origin,
     stopped |-> FALSE, sent |-> "",
     prompt |-> None, completion_text |-> None, chain |-> <<>>,
     update_data |-> None, rc |-> None, initial |-> None,
     target |-> None, arg_favour |-> None, arg_relationship |-> None, data |-> <<>>,
     cmd |-> None, shown |-> None, backup |-> None, error |-> FALSE]

\* The event when its handler has returned: the locals are gone, the chain
\* of the event's result stays.
Returned(r) ==
    [r EXCEPT !.pc = "idle", !.prompt = None, !.completion_text = None,
              !.update_data = None, !.initial = None,
              !.rc = None, !.target = None, !.arg_favour = None,
              !.arg_relationship = None, !.data = <<>>]

Init ==
    /\ is_global_favour = FALSE
    /\ store \in {<<>>} \cup {<<Rec(U1, Origin, p[1], p[2])>> : p \in InitRecords}
    /\ global_data = [u \in UserIds |-> None]
    /\ pending_updates = [e \in Events |-> None]
    /\ cold_violence_users = [u \in UserIds |-> None]
    /\ now = 0
    /\ lock = 0
    /\ ev = [e \in Events |-> NewEvent]
    /\ nfin = 0
    /\ favour_records = <<>>

\* A message that leads to a model request arrives; events arrive in the
\* order of their indices.
ArriveChat(e, u) ==
    /\ ev[e].pc = "new"
    /\ \A d \in Events : d < e => ev[d].pc # "new"
    /\ ev' = [ev EXCEPT ![e] = [@ EXCEPT !.pc = "req_gate", !.kind = "chat", !.sender = u]]
    /\ UNCHANGED <<favour_records, is_global_favour, store, global_data, pending_updates,
                   cold_violence_users, now, lock, nfin>>

InColdViolenceInclusive(user_id) ==
    /\ cold_violence_users[user_id] # None
    /\ now <= The(cold_violence_users[user_id])

\* user_id in self.cold_violence_users and datetime.now() < expiration_time
InColdViolence(user_id) ==
    /\ cold_violence_users[user_id] # None
    /\ now < The(cold_violence_users[user_id])

\* The exclusive relationships inject_favour_prompt finds in the list it has
\* read: of every record of the conversation whose relationship is not empty
\* and holds a keyword, the relationship followed by the user id.
RECURSIVE existing_exclusive_first_only(_, _)
existing_exclusive_first_only(all_data, session_id) ==
    IF all_data = <<>> THEN <<>>
    ELSE IF Head(all_data).session_id = session_id
            /\ IsExclusive(Head(all_data).relationship)
    THEN <<Head(all_data).relationship \o Head(all_data).userid>>
    ELSE existing_exclusive_first_only(Tail(all_data), session_id)

RECURSIVE existing_exclusive(_, _)
existing_exclusive(all_data, session_id) ==
    IF all_data = <<>> THEN <<>>
    ELSE (IF Head(all_data).session_id = session_id
             /\ IsExclusive(Head(all_data).relationship)
          THEN <<Head(all_data).relationship \o Head(all_data).userid>>
          ELSE <<>>)
         \o existing_exclusive(Tail(all_data), session_id)

\* The advisory put into the prompt: only when the plugin is not in global
\* mode and the event has a conversation.
exclusive_prompt_addon(all_data, session_id) ==
    IF ~ is_global_favour /\ session_id # NoSession
    THEN existing_exclusive(all_data, session_id)
    ELSE <<>>

InjectGateAnnouncing(e) ==
    /\ ev[e].pc = "req_gate"
    /\ LET user_id == ev[e].sender
       IN  IF InColdViolence(user_id)
           THEN /\ ev' = [ev EXCEPT ![e] = [@ EXCEPT !.pc = "req_inject",
                                                      !.sent = "on_message"]]
                /\ UNCHANGED cold_violence_users
           ELSE /\ ev' = [ev EXCEPT ![e] = [@ EXCEPT !.pc = "req_inject"]]
                /\ cold_violence_users' = [cold_violence_users EXCEPT ![user_id] = None]
    /\ UNCHANGED <<favour_records, is_global_favour, store, global_data, pending_updates, now, lock, nfin>>

InjectGateInOrigin(e) ==
    /\ ev[e].pc = "req_gate"
    /\ LET user_id == ev[e].sender
       IN  IF InColdViolence(user_id) /\ ev[e].unified_msg_origin = Origin
           THEN /\ ev' = [ev EXCEPT ![e] = [@ EXCEPT !.pc = "stopped", !.stopped = TRUE,
                                                      !.sent = "on_message"]]
                /\ UNCHANGED cold_violence_users
           ELSE /\ ev' = [ev EXCEPT ![e] = [@ EXCEPT !.pc = "req_inject"]]
                /\ cold_violence_users' = [cold_violence_users EXCEPT ![user_id] = None]
    /\ UNCHANGED <<favour_records, is_global_favour, store, global_data, pending_updates, now, lock, nfin>>

\* inject_favour_prompt up to its first read of the store: the cold-violence
\* gate.
InjectGate(e) ==
    /\ ev[e].pc = "req_gate"
    /\ LET user_id == ev[e].sender
       IN  IF InColdViolence(user_id)
           THEN /\ ev' = [ev EXCEPT ![e] = [@ EXCEPT !.pc = "stopped", !.stopped = TRUE,
                                                      !.sent = "on_message"]]
                /\ UNCHANGED cold_violence_users
           ELSE /\ ev' = [ev EXCEPT ![e] = [@ EXCEPT !.pc = "req_inject"]]
                /\ cold_violence_users' = [cold_violence_users EXCEPT ![user_id] = None]
    /\ UNCHANGED <<favour_records, is_global_favour, store, global_data, pending_updates, now, lock, nfin>>

\* The rest of inject_favour_prompt: the record (or the initial value) is
\* read and the prompt is put before the request's system prompt; the
\* request goes to the model.
InjectPrompt(e, ok, all_ok, glob_ok, ctx) ==
    /\ ev[e].pc = "req_inject"
    /\ LET rec == get_user_favour(ok, ev[e].sender, _get_session_id(ev[e]))
           current_favour == IF rec # None THEN The(rec).favour
                             ELSE _get_initial_favour(ev[e].sender, glob_ok, ctx)
           current_relationship == IF rec # None THEN The(rec).relationship ELSE <<>>
       IN  ev' = [ev EXCEPT ![e] = [@ EXCEPT !.pc = "llm",
                      !.prompt = Some([current_favour |-> current_favour,
                                       current_relationship |-> current_relationship,
                                       exclusive_prompt_addon |->
                                           exclusive_prompt_addon(read_favour(all_ok),
                                                                  _get_session_id(ev[e]))]),
                      !.initial = InitialInputs(rec, glob_ok, ctx)]]
    /\ UNCHANGED <<favour_records, is_global_favour, store, global_data, pending_updates,
                   cold_violence_users, now, lock, nfin>>

\* ParseResponse over the responses of the model, computed once.
ParsedResponses ==
    [t \in ResponseTexts \cup ParseTexts \cup DeliverTexts \cup RelTexts
            \cup UniqueTexts \cup InitialTexts |-> ParseResponse(t)]

handle_llm_response_committing(e, text) ==
    /\ ev[e].pc = "llm" /\ ev[e].kind = "chat"
    /\ ev' = [ev EXCEPT ![e] = [Returned(@) EXCEPT !.completion_text = Some(text),
                                                     !.stopped = FALSE]]
    /\ store' = UpdatedData(store, ev[e].sender, _get_session_id(ev[e]),
                            Some(ParsedResponses[text].favour_change), None)
    /\ UNCHANGED <<favour_records, is_global_favour, global_data, pending_updates,
                   cold_violence_users, now, lock, nfin>>

\* The body of handle_llm_response: the response is parsed and the update is
\* parked under the message id, when there is one to park; nothing is
\* committed.
ParkResponse(e, text) ==
    /\ ev' = [ev EXCEPT ![e] = [Returned(@) EXCEPT !.completion_text = Some(text),
                                                     !.stopped = FALSE]]
    /\ LET parsed == ParsedResponses[text]
       IN  pending_updates' =
              IF parsed.park
              THEN [pending_updates EXCEPT ![e] =
                      Some([favour_change |-> parsed.favour_change,
                            relationship_update |-> parsed.relationship_update])]
              ELSE pending_updates
    /\ UNCHANGED <<favour_records, is_global_favour, store, global_data, cold_violence_users, now,
                   lock, nfin>>

\* handle_llm_response, which the framework calls with the response to the
\* message's request.
handle_llm_response(e, text) ==
    /\ ev[e].pc = "llm" /\ ev[e].kind = "chat"
    /\ ParkResponse(e, text)

\* handle_llm_response called once more for the same message, with a further
\* response of the model, before the result is decorated.
handle_llm_response_again(e, text) ==
    /\ ev[e].pc = "idle" /\ ev[e].kind = "chat"
    /\ ev[e].completion_text # None
    /\ ParkResponse(e, text)

\* CleanChain over the chains a finalize hook cleans, computed once.
DeliveredChains == ResultChains \cup {<<t>> : t \in DeliverTexts}

CleanedChains ==
    [c \in DeliveredChains \cup {Append(d, TriggerMessage) : d \in DeliveredChains} |->
        CleanChain(c)]

FinishFinalizeStacking(e, r, evaluate) ==
    LET armed == evaluate /\ ArmCondition(The(r.update_data).favour_change,
                                          The(r.rc).new_favour)
        chain1 == IF armed THEN Append(r.chain, TriggerMessage) ELSE r.chain
        from == IF cold_violence_users[r.sender] # None
                THEN The(cold_violence_users[r.sender]) ELSE now
    IN  /\ cold_violence_users' =
              IF armed
              THEN [cold_violence_users EXCEPT
                      ![r.sender] = Some(from + cold_violence_duration_minutes)]
              ELSE cold_violence_users
        /\ ev' = [ev EXCEPT ![e] = Returned([r EXCEPT !.chain = CleanedChains[chain1]])]

\* Lines 843-876 of cleanup_and_update_favour, which run without an await:
\* the arming of cold violence (evaluated only on the update path), the
\* trigger reply and the cleaning of the chain.  r is the event so far.
FinishFinalize(e, r, evaluate) ==
    LET armed == evaluate /\ ArmCondition(The(r.update_data).favour_change,
                                          The(r.rc).new_favour)
        chain1 == IF armed THEN Append(r.chain, TriggerMessage) ELSE r.chain
    IN  /\ cold_violence_users' =
              IF armed
              THEN [cold_violence_users EXCEPT
                      ![r.sender] = Some(now + cold_violence_duration_minutes)]
              ELSE cold_violence_users
        /\ ev' = [ev EXCEPT ![e] = Returned([r EXCEPT !.chain = CleanedChains[chain1]])]

PopKeeping(e) == pending_updates

\* pending_updates.pop(message_id, None): the map afterwards
Pop(e) == [pending_updates EXCEPT ![e] = None]

\* cleanup_and_update_favour up to its read of the record: the parked update
\* is taken.
FinalizeTake(e, chain) ==
    /\ ev[e].pc = "idle"
    /\ nfin < MaxFinalizes
    /\ nfin' = nfin + 1
    /\ LET r == [ev[e] EXCEPT !.chain = chain]
           ud == pending_updates[e]
       IN  IF chain = <<>>
           THEN /\ ev' = [ev EXCEPT ![e] = Returned(r)]
                /\ UNCHANGED <<pending_updates, cold_violence_users>>
           ELSE /\ pending_updates' = Pop(e)
                /\ IF ud = None
                      \/ (The(ud).favour_change = 0 /\ The(ud).relationship_update = None)
                   THEN FinishFinalize(e, [r EXCEPT !.update_data = ud], FALSE)
                   ELSE /\ ev' = [ev EXCEPT ![e] = [r EXCEPT !.pc = "fin_read",
                                                             !.update_data = ud]]
                        /\ UNCHANGED cold_violence_users
    /\ UNCHANGED <<favour_records, is_global_favour, store, global_data, now, lock>>

\* The read of the record (and, without one, of the initial value), the
\* reconciliation, and the choice to write.
FinalizeRead(e, ok, glob_ok, ctx) ==
    /\ ev[e].pc = "fin_read"
    /\ LET ud == The(ev[e].update_data)
           rec == get_user_favour(ok, ev[e].sender, _get_session_id(ev[e]))
           rc == IF rec # None
                 THEN ReconcileExisting(The(rec), ud.favour_change, ud.relationship_update)
                 ELSE ReconcileNew(_get_initial_favour(ev[e].sender, glob_ok, ctx),
                                   ud.favour_change, ud.relationship_update)
           r == [ev[e] EXCEPT !.rc = Some(rc),
                              !.initial = InitialInputs(rec, glob_ok, ctx)]
       IN  IF rc.write
           THEN /\ ev' = [ev EXCEPT ![e] = [r EXCEPT !.pc = "upd_lock",
                                                     !.target = Some(ev[e].sender),
                                                     !.arg_favour = rc.arg_favour,
                                                     !.arg_relationship = rc.arg_relationship]]
                /\ UNCHANGED cold_violence_users
           ELSE FinishFinalize(e, r, TRUE)
    /\ UNCHANGED <<favour_records, is_global_favour, store, global_data, pending_updates, now, lock, nfin>>

\* What a write of haogan.json leaves: the data written, or, when
\* _write_json raises and answers False, the file as it was.
WriteOutcomes == {"written", "failed"}

write_favour(outcome, data) == IF outcome = "written" THEN data ELSE store

\* What the caller of update_user_favour does when it returns success: the
\* finalize hook goes on to arm and clean whatever the answer, the modify
\* command to its reply.
AfterUpdate(e, r, success) ==
    IF r.kind = "chat"
    THEN FinishFinalize(e, r, TRUE)
    ELSE /\ ev' = [ev EXCEPT ![e] =
                     IF success
                     THEN [Returned(r) EXCEPT !.pc = "mod_reply"]
                     ELSE [Returned(r) EXCEPT !.sent = "failed"]]
         /\ UNCHANGED cold_violence_users

\* update_user_favour up to its write: the user id is checked, the lock is
\* taken and the list is read.
UpdateBegin(e, ok) ==
    /\ ev[e].pc = "upd_lock"
    /\ IF ~ is_valid_userid(Strip(The(ev[e].target)))
       THEN /\ AfterUpdate(e, ev[e], FALSE)
            /\ UNCHANGED lock
       ELSE /\ lock = 0
            /\ lock' = e
            /\ ev' = [ev EXCEPT ![e] = [@ EXCEPT !.pc = "upd_commit",
                                                  !.data = read_favour(ok)]]
            /\ UNCHANGED cold_violence_users
    /\ UNCHANGED <<favour_records, is_global_favour, store, global_data, pending_updates, now, nfin>>

\* The rest of update_user_favour: the list is changed and written, the lock
\* is released, and the caller goes on.
UpdateEnd(e, outcome) ==
    /\ ev[e].pc = "upd_commit"
    /\ store' = write_favour(outcome,
                             UpdatedData(ev[e].data, Strip(The(ev[e].target)),
                                         _get_session_id(ev[e]), ev[e].arg_favour,
                                         ev[e].arg_relationship))
    /\ lock' = 0
    /\ AfterUpdate(e, ev[e], outcome = "written")
    /\ UNCHANGED <<favour_records, is_global_favour, global_data, pending_updates, now, nfin>>

AfterRaiseReturning(e, r) ==
    /\ ev' = [ev EXCEPT ![e] = [Returned(r) EXCEPT !.error = TRUE]]
    /\ UNCHANGED cold_violence_users

\* What follows an exception of the update step: in the finalize hook it is
\* caught and logged and the chain is cleaned, nothing being armed; out of
\* the modify command it goes to the framework.
AfterRaise(e, r) ==
    IF r.kind = "chat"
    THEN FinishFinalize(e, [r EXCEPT !.error = TRUE], FALSE)
    ELSE /\ ev' = [ev EXCEPT ![e] = [Returned(r) EXCEPT !.error = TRUE]]
         /\ UNCHANGED cold_violence_users

\* get_user_favour raises in the finalize hook: read_favour meets a value
\* that int() refuses.
FinalizeReadRaises(e) ==
    /\ ev[e].pc = "fin_read"
    /\ AfterRaise(e, ev[e])
    /\ UNCHANGED <<favour_records, is_global_favour, store, global_data, pending_updates, now, lock, nfin>>

\* read_favour raises in update_user_favour: the lock is taken and released
\* and nothing is written.
UpdateRaises(e) ==
    /\ ev[e].pc = "upd_lock"
    /\ is_valid_userid(Strip(The(ev[e].target)))
    /\ lock = 0
    /\ AfterRaise(e, ev[e])
    /\ UNCHANGED <<favour_records, is_global_favour, store, global_data, pending_updates, now, lock, nfin>>

\* modify_favour up to its call of update_user_favour: the permission floor,
\* the target and the value are checked.  r is the event, the result the
\* event when the handler returns or is suspended in update_user_favour.
ModifyOutcome(r, u, target, value, ctx) ==
    IF ~ _check_permission(u, ctx, ADMIN)
    THEN [r EXCEPT !.pc = "idle", !.sent = "denied"]
    ELSE IF ~ is_valid_userid(Strip(target))
    THEN [r EXCEPT !.pc = "idle", !.sent = "no_target"]
    ELSE IF value = None
    THEN [r EXCEPT !.pc = "idle", !.sent = "not_integer"]
    ELSE IF ~ (min_bound <= The(value) /\ The(value) <= max_bound)
    THEN [r EXCEPT !.pc = "idle", !.sent = "out_of_range"]
    ELSE [r EXCEPT !.pc = "upd_lock", !.target = Some(target),
                   !.arg_favour = value, !.arg_relationship = None]

\* A modify command arrives and its handler starts.
ModifyStart(e, u, target, value, ctx) ==
    /\ ev[e].pc = "new"
    /\ \A d \in Events : d < e => ev[d].pc # "new"
    /\ ev' = [ev EXCEPT ![e] =
                ModifyOutcome([@ EXCEPT !.kind = "modify", !.sender = u],
                              u, target, value, ctx)]
    /\ UNCHANGED <<favour_records, is_global_favour, store, global_data, pending_updates,
                   cold_violence_users, now, lock, nfin>>

\* The end of modify_favour: the record is read again for the reply.
ModifyReply(e) ==
    /\ ev[e].pc = "mod_reply"
    /\ ev' = [ev EXCEPT ![e] = [@ EXCEPT !.pc = "idle", !.sent = "modified"]]
    /\ UNCHANGED <<favour_records, is_global_favour, store, global_data, pending_updates,
                   cold_violence_users, now, lock, nfin>>

\* ------------------------------------------------------------ commands
\* A command message arrives: which command, who sends it, its argument and
\* value, and what the group-member lookup answers for the sender.  Its
\* handler has not run yet.
ArriveCommand(e, kind, u, arg, value, ctx) ==
    /\ ev[e].pc = "new"
    /\ \A d \in Events : d < e => ev[d].pc # "new"
    /\ ev' = [ev EXCEPT ![e] =
                [@ EXCEPT !.pc = "cmd", !.kind = kind, !.sender = u,
                          !.cmd = Some([target |-> arg, value |-> value, ctx |-> ctx])]]
    /\ UNCHANGED <<favour_records, is_global_favour, store, global_data, pending_updates,
                   cold_violence_users, now, lock, nfin>>

\* _get_target_uid for a message without an At component: the argument,
\* stripped, when it is a valid user id.
_get_target_uid(text_arg) ==
    IF is_valid_userid(Strip(text_arg)) THEN Some(Strip(text_arg)) ELSE None

\* modify_favour for a command that has arrived.
modify_favour(e) ==
    /\ ev[e].pc = "cmd" /\ ev[e].kind = "modify"
    /\ ev' = [ev EXCEPT ![e] =
                ModifyOutcome(@, @.sender, The(@.cmd).target, The(@.cmd).value,
                              The(@.cmd).ctx)]
    /\ UNCHANGED <<favour_records, is_global_favour, store, global_data, pending_updates,
                   cold_violence_users, now, lock, nfin>>

\* The reply of a handler that returns.
Reply(r, sent) == [Returned(r) EXCEPT !.sent = sent]

CancelledUsersWhenExpired(target) ==
    IF now < The(cold_violence_users[target]) THEN cold_violence_users
    ELSE [cold_violence_users EXCEPT ![target] = None]

\* del self.cold_violence_users[real_target_uid]
CancelledUsers(target) == [cold_violence_users EXCEPT ![target] = None]

\* cancel_cold_violence
cancel_cold_violence(e) ==
    /\ ev[e].pc = "cmd" /\ ev[e].kind = "cancel"
    /\ LET r == ev[e]
           real_target_uid == _get_target_uid(The(r.cmd).target)
       IN  IF ~ _check_permission(r.sender, The(r.cmd).ctx, SUPERUSER)
           THEN /\ ev' = [ev EXCEPT ![e] = Reply(r, "denied")]
                /\ UNCHANGED cold_violence_users
           ELSE IF real_target_uid = None
           THEN /\ ev' = [ev EXCEPT ![e] = Reply(r, "no_target")]
                /\ UNCHANGED cold_violence_users
           ELSE IF cold_violence_users[The(real_target_uid)] # None
           THEN /\ ev' = [ev EXCEPT ![e] = Reply(r, "cancelled")]
                /\ cold_violence_users' = CancelledUsers(The(real_target_uid))
           ELSE /\ ev' = [ev EXCEPT ![e] = Reply(r, "not_cold")]
                /\ UNCHANGED cold_violence_users
    /\ UNCHANGED <<favour_records, is_global_favour, store, global_data, pending_updates, now, lock, nfin>>

\* The record _generate_favour_response shows for user_id: the user's, or,
\* without one, the global value or the default with no relationship.
ShownRecord(ok, glob_ok, user_id, session_id) ==
    LET current_record == get_user_favour(ok, user_id, session_id)
    IN  IF current_record # None
        THEN [favour |-> The(current_record).favour,
              relationship |-> The(current_record).relationship]
        ELSE IF ~ is_global_favour /\ get_user_global_favour(glob_ok, user_id) # None
        THEN [favour |-> The(get_user_global_favour(glob_ok, user_id)),
              relationship |-> <<>>]
        ELSE [favour |-> default_favour, relationship |-> <<>>]

\* _generate_favour_response: the refusal when the target is the sender and
\* the sender's cold violence has not expired; else the target's record.
_generate_favour_response(e, target_uid, ok, glob_ok) ==
    LET r == ev[e]
    IN  IF target_uid = r.sender /\ InColdViolence(target_uid)
        THEN /\ ev' = [ev EXCEPT ![e] = Reply(r, "on_query")]
             /\ UNCHANGED cold_violence_users
        ELSE /\ ev' = [ev EXCEPT ![e] =
                         [Reply(r, "favour") EXCEPT
                             !.shown = Some(ShownRecord(ok, glob_ok, target_uid,
                                                       _get_session_id(r)))]]
             /\ cold_violence_users' =
                   IF target_uid = r.sender
                   THEN [cold_violence_users EXCEPT ![target_uid] = None]
                   ELSE cold_violence_users

\* query_my_favour
query_my_favour(e, ok, glob_ok) ==
    /\ ev[e].pc = "cmd" /\ ev[e].kind = "query_my"
    /\ _generate_favour_response(e, ev[e].sender, ok, glob_ok)
    /\ UNCHANGED <<favour_records, is_global_favour, store, global_data, pending_updates, now, lock, nfin>>

\* query_user_favour
query_user_favour(e, ok, glob_ok) ==
    /\ ev[e].pc = "cmd" /\ ev[e].kind = "query_user"
    /\ IF _get_target_uid(The(ev[e].cmd).target) = None
       THEN /\ ev' = [ev EXCEPT ![e] = Reply(@, "no_target")]
            /\ UNCHANGED cold_violence_users
       ELSE _generate_favour_response(e, The(_get_target_uid(The(ev[e].cmd).target)),
                                      ok, glob_ok)
    /\ UNCHANGED <<favour_records, is_global_favour, store, global_data, pending_updates, now, lock, nfin>>

\* The command delete_user_favour up to the file manager's method of the
\* same name.
DeleteStart(e) ==
    /\ ev[e].pc = "cmd" /\ ev[e].kind = "delete"
    /\ ev' = [ev EXCEPT ![e] =
                IF ~ _check_permission(@.sender, The(@.cmd).ctx, ADMIN)
                THEN Reply(@, "denied")
                ELSE IF _get_target_uid(The(@.cmd).target) = None
                THEN Reply(@, "no_target")
                ELSE [@ EXCEPT !.pc = "del_lock",
                               !.target = _get_target_uid(The(ev[e].cmd).target)]]
    /\ UNCHANGED <<favour_records, is_global_favour, store, global_data, pending_updates,
                   cold_violence_users, now, lock, nfin>>

\* FavourFileManager.delete_user_favour: the lock is taken and the list read.
DeleteBegin(e, ok) ==
    /\ ev[e].pc = "del_lock"
    /\ lock = 0
    /\ lock' = e
    /\ ev' = [ev EXCEPT ![e] = [@ EXCEPT !.pc = "del_commit", !.data = read_favour(ok)]]
    /\ UNCHANGED <<favour_records, is_global_favour, store, global_data, pending_updates,
                   cold_violence_users, now, nfin>>

\* The records of data but those of (u, sid).
Others(data, u, sid) ==
    SelectSeq(data, LAMBDA item : ~ (item.userid = u /\ item.session_id = sid))

\* The rest of it: the list without the user's records is written when
\* there was one, and the lock is released.
DeleteEnd(e, outcome) ==
    /\ ev[e].pc = "del_commit"
    /\ lock' = 0
    /\ LET new_data == Others(ev[e].data, The(ev[e].target), _get_session_id(ev[e]))
       IN  IF Len(new_data) = Len(ev[e].data)
           THEN /\ ev' = [ev EXCEPT ![e] = Reply(@, "not_found")]
                /\ UNCHANGED store
           ELSE /\ store' = write_favour(outcome, new_data)
                /\ ev' = [ev EXCEPT ![e] =
                            Reply(@, IF outcome = "written" THEN "deleted" ELSE "failed")]
    /\ UNCHANGED <<favour_records, is_global_favour, global_data, pending_updates,
                   cold_violence_users, now, nfin>>

\* clear_conversation_favour up to the lock.
ClearConversationStart(e) ==
    /\ ev[e].pc = "cmd" /\ ev[e].kind = "clear_conversation"
    /\ ev' = [ev EXCEPT ![e] =
                IF ~ _check_permission(@.sender, The(@.cmd).ctx, OWNER)
                THEN Reply(@, "denied")
                ELSE [@ EXCEPT !.pc = "ccl_lock"]]
    /\ UNCHANGED <<favour_records, is_global_favour, store, global_data, pending_updates,
                   cold_violence_users, now, lock, nfin>>

\* The lock is taken and the list read.
ClearConversationBegin(e, ok) ==
    /\ ev[e].pc = "ccl_lock"
    /\ lock = 0
    /\ lock' = e
    /\ ev' = [ev EXCEPT ![e] = [@ EXCEPT !.pc = "ccl_commit", !.data = read_favour(ok)]]
    /\ UNCHANGED <<favour_records, is_global_favour, store, global_data, pending_updates,
                   cold_violence_users, now, nfin>>

\* The records of the other conversations are written back and the lock is
\* released.
ClearConversationEnd(e, outcome) ==
    /\ ev[e].pc = "ccl_commit"
    /\ lock' = 0
    /\ store' = write_favour(outcome,
                             SelectSeq(ev[e].data,
                                       LAMBDA item : item.session_id # _get_session_id(ev[e])))
    /\ ev' = [ev EXCEPT ![e] =
                Reply(@, IF outcome = "written" THEN "cleared" ELSE "failed")]
    /\ UNCHANGED <<favour_records, is_global_favour, global_data, pending_updates,
                   cold_violence_users, now, nfin>>

\* DEFAULT_CONFIG["enable_clear_backup"]
enable_clear_backup == TRUE

\* clear_global_favour up to clear_all_favour's first await.
ClearAllStart(e) ==
    /\ ev[e].pc = "cmd" /\ ev[e].kind = "clear_all"
    /\ ev' = [ev EXCEPT ![e] =
                IF ~ _check_permission(@.sender, The(@.cmd).ctx, SUPERUSER)
                THEN Reply(@, "denied")
                ELSE IF enable_clear_backup
                THEN [@ EXCEPT !.pc = "bak_read"]
                ELSE [@ EXCEPT !.pc = "clr_write"]]
    /\ UNCHANGED <<favour_records, is_global_favour, store, global_data, pending_updates,
                   cold_violence_users, now, lock, nfin>>

\* backup_data = await self.read_favour(), outside the lock; without data
\* there is nothing to back up.
ClearAllRead(e, ok) ==
    /\ ev[e].pc = "bak_read"
    /\ ev' = [ev EXCEPT ![e] =
                IF read_favour(ok) # <<>>
                THEN [@ EXCEPT !.pc = "bak_lock", !.data = read_favour(ok)]
                ELSE [@ EXCEPT !.pc = "clr_write"]]
    /\ UNCHANGED <<favour_records, is_global_favour, store, global_data, pending_updates,
                   cold_violence_users, now, lock, nfin>>

\* read_favour raises (a value int() refuses): the backup has failed and the
\* clear is given up.
ClearAllReadRaises(e) ==
    /\ ev[e].pc = "bak_read"
    /\ ev' = [ev EXCEPT ![e] = Reply(@, "failed")]
    /\ UNCHANGED <<favour_records, is_global_favour, store, global_data, pending_updates,
                   cold_violence_users, now, lock, nfin>>

\* The backup file is written under the lock; when the write raises the
\* clear is given up.
ClearAllBackup(e, outcome) ==
    /\ ev[e].pc = "bak_lock"
    /\ lock = 0
    /\ ev' = [ev EXCEPT ![e] =
                IF outcome = "written"
                THEN [@ EXCEPT !.pc = "clr_write", !.backup = Some(ev[e].data)]
                ELSE Reply(@, "failed")]
    /\ UNCHANGED <<favour_records, is_global_favour, store, global_data, pending_updates,
                   cold_violence_users, now, lock, nfin>>

\* return await self.write_favour([]), outside the lock
ClearAllWrite(e, outcome) ==
    /\ ev[e].pc = "clr_write"
    /\ store' = write_favour(outcome, <<>>)
    /\ ev' = [ev EXCEPT ![e] =
                Reply(@, IF outcome = "written" THEN "cleared" ELSE "failed")]
    /\ UNCHANGED <<favour_records, is_global_favour, global_data, pending_updates,
                   cold_violence_users, now, lock, nfin>>

\* Time passes, half a cold-violence duration at a time.
Tick ==
    /\ now < MaxTicks * (cold_violence_duration_minutes \div 2)
    /\ now' = now + cold_violence_duration_minutes \div 2
    /\ UNCHANGED <<favour_records, is_global_favour, store, global_data, pending_updates,
                   cold_violence_users, lock, ev, nfin>>

Next ==
    \/ \E e \in Events, u \in ChatSenders : ArriveChat(e, u)
    \/ \E e \in Events : InjectGate(e)
    \/ \E e \in Events, ok \in ReadOutcomes, all_ok \in ReadOutcomes, glob_ok \in BOOLEAN, ctx \in ChatContexts :
          InjectPrompt(e, ok, all_ok, glob_ok, ctx)
    \/ \E e \in Events, text \in ResponseTexts : handle_llm_response(e, text)
    \/ \E e \in Events, chain \in ResultChains : FinalizeTake(e, chain)
    \/ \E e \in Events, ok \in ReadOutcomes, glob_ok \in BOOLEAN, ctx \in ChatContexts :
          FinalizeRead(e, ok, glob_ok, ctx)
    \/ \E e \in Events, ok \in ReadOutcomes : UpdateBegin(e, ok)
    \/ \E e \in Events, outcome \in WriteOutcomes : UpdateEnd(e, outcome)
    \/ \E e \in Events, u \in ModifySenders, target \in ModifyTargets,
          value \in ModifyValues, ctx \in PermContexts :
          ModifyStart(e, u, target, value, ctx)
    \/ \E e \in Events : ModifyReply(e)
    \/ Tick

Spec == Init /\ [][Next]_vars

\* The parser alone: one message, answered with every text of ParseTexts.
NextParse ==
    \/ \E u \in ChatSenders : ArriveChat(1, u)
    \/ InjectGate(1)
    \/ \E ok \in ReadOutcomes, all_ok \in ReadOutcomes, glob_ok \in BOOLEAN, ctx \in ChatContexts :
          InjectPrompt(1, ok, all_ok, glob_ok, ctx)
    \/ \E text \in ParseTexts \cup RelTexts \cup UniqueTexts :
          handle_llm_response(1, text)

SpecParse == Init /\ [][NextParse]_vars

\* The framework puts the response into the result of the event and runs
\* the finalize hook on it.
DeliverResponse(e) ==
    /\ ev[e].completion_text # None
    /\ FinalizeTake(e, <<The(ev[e].completion_text)>>)

\* One message whose responses are parsed, once or again, and delivered.
NextDeliver ==
    \/ \E u \in ChatSenders : ArriveChat(1, u)
    \/ InjectGate(1)
    \/ \E ok \in ReadOutcomes, all_ok \in ReadOutcomes, glob_ok \in BOOLEAN, ctx \in ChatContexts :
          InjectPrompt(1, ok, all_ok, glob_ok, ctx)
    \/ \E text \in DeliverTexts : handle_llm_response(1, text)
    \/ \E text \in DeliverTexts : handle_llm_response_again(1, text)
    \/ DeliverResponse(1)
    \/ \E ok \in ReadOutcomes, glob_ok \in BOOLEAN, ctx \in ChatContexts :
          FinalizeRead(1, ok, glob_ok, ctx)
    \/ \E ok \in ReadOutcomes : UpdateBegin(1, ok)
    \/ \E outcome \in WriteOutcomes : UpdateEnd(1, outcome)

SpecDeliver == Init /\ [][NextDeliver]_vars

\* The plugin in either mode, with a global file and with no record or one
\* record of the first user at the upper bound.
InitInitial ==
    /\ is_global_favour \in BOOLEAN
    /\ store \in {<<>>,
                  <<Rec(U1, IF is_global_favour THEN NoSession ELSE Origin,
                        max_bound, <<>>)>>}
    /\ global_data \in GlobalFiles
    /\ pending_updates = [e \in Events |-> None]
    /\ cold_violence_users = [u \in UserIds |-> None]
    /\ now = 0
    /\ lock = 0
    /\ ev = [e \in Events |-> NewEvent]
    /\ nfin = 0
    /\ favour_records = <<>>

\* One message of a user, from its arrival to its finalize hook.
NextInitial ==
    \/ \E u \in InitialSenders : ArriveChat(1, u)
    \/ InjectGate(1)
    \/ \E ok \in ReadOutcomes, all_ok \in ReadOutcomes, glob_ok \in BOOLEAN, ctx \in InitialContexts :
          InjectPrompt(1, ok, all_ok, glob_ok, ctx)
    \/ \E text \in InitialTexts : handle_llm_response(1, text)
    \/ \E chain \in ResultChains : FinalizeTake(1, chain)
    \/ \E ok \in ReadOutcomes, glob_ok \in BOOLEAN, ctx \in InitialContexts :
          FinalizeRead(1, ok, glob_ok, ctx)
    \/ \E ok \in ReadOutcomes : UpdateBegin(1, ok)
    \/ \E outcome \in WriteOutcomes : UpdateEnd(1, outcome)

SpecInitial == InitInitial /\ [][NextInitial]_vars

\* cleanup_and_update_favour on the result of an event that has no parked
\* update: part 2 alone, the cleaning of the chain the result holds.
DecorateResult(e) ==
    /\ ev[e].pc = "idle"
    /\ ev[e].chain # <<>>
    /\ pending_updates[e] = None
    /\ nfin < MaxFinalizes
    /\ nfin' = nfin + 1
    /\ ev' = [ev EXCEPT ![e] = Returned([@ EXCEPT !.chain = CleanChain(@)])]
    /\ UNCHANGED <<favour_records, is_global_favour, store, global_data, pending_updates,
                   cold_violence_users, now, lock>>

\* A result of one Plain text waits to be decorated; nothing is parked for
\* its message.
InitStrip ==
    /\ is_global_favour = FALSE
    /\ store = <<>>
    /\ global_data = [u \in UserIds |-> None]
    /\ pending_updates = [e \in Events |-> None]
    /\ cold_violence_users = [u \in UserIds |-> None]
    /\ now = 0
    /\ lock = 0
    /\ \E t \in StripTexts :
          ev = [e \in Events |->
                  IF e = 1 THEN [NewEvent EXCEPT !.pc = "idle", !.kind = "chat",
                                                 !.chain = <<t>>]
                  ELSE NewEvent]
    /\ nfin = 0
    /\ favour_records = <<>>

NextStrip == DecorateResult(1)

SpecStrip == InitStrip /\ [][NextStrip]_vars

\* The commands: those with a user as argument and those without; who
\* sends them and at whom; the value of a modify command; and the
\* group-member lookups of the chat message that follows a command.
TargetedKinds == {"modify", "delete", "cancel", "query_user"}

UntargetedKinds == {"clear_conversation", "clear_all", "query_my"}

CommandSenders == {U1, U2, UBad}

CommandTargets == {U1, U2}

CommandValues == {Some(-60)}

CommandChatContexts ==
    {None, Some([role |-> "unknown", level |-> 0]), Some([role |-> "owner", level |-> 0])}

\* The plugin with no record or with a record of each of two users, and with
\* the first user in cold violence or not.
InitCommand ==
    /\ is_global_favour = FALSE
    /\ store \in {<<>>,
                  <<Rec(U1, Origin, cold_violence_threshold - 1, <<>>),
                    Rec(U2, Origin, 5, <<"x">>)>>}
    /\ global_data = [u \in UserIds |-> None]
    /\ pending_updates = [e \in Events |-> None]
    /\ cold_violence_users \in
          {[u \in UserIds |-> None],
           [u \in UserIds |-> IF u = U1 THEN Some(cold_violence_duration_minutes)
                              ELSE None]}
    /\ now = 0
    /\ lock = 0
    /\ ev = [e \in Events |-> NewEvent]
    /\ nfin = 0
    /\ favour_records = <<>>

\* A command, and after it a chat message up to its model call.
NextCommand ==
    \/ \E kind \in TargetedKinds, u \in CommandSenders, arg \in CommandTargets,
          value \in CommandValues, ctx \in PermContexts :
          ArriveCommand(1, kind, u, arg, value, ctx)
    \/ \E kind \in UntargetedKinds, u \in CommandSenders, ctx \in PermContexts :
          ArriveCommand(1, kind, u, <<>>, None, ctx)
    \/ modify_favour(1)
    \/ \E ok \in ReadOutcomes : UpdateBegin(1, ok)
    \/ \E outcome \in WriteOutcomes : UpdateEnd(1, outcome)
    \/ ModifyReply(1)
    \/ cancel_cold_violence(1)
    \/ \E ok \in ReadOutcomes, glob_ok \in BOOLEAN : query_my_favour(1, ok, glob_ok)
    \/ \E ok \in ReadOutcomes, glob_ok \in BOOLEAN : query_user_favour(1, ok, glob_ok)
    \/ DeleteStart(1)
    \/ \E ok \in ReadOutcomes : DeleteBegin(1, ok)
    \/ \E outcome \in WriteOutcomes : DeleteEnd(1, outcome)
    \/ ClearConversationStart(1)
    \/ \E ok \in ReadOutcomes : ClearConversationBegin(1, ok)
    \/ \E outcome \in WriteOutcomes : ClearConversationEnd(1, outcome)
    \/ ClearAllStart(1)
    \/ \E ok \in ReadOutcomes : ClearAllRead(1, ok)
    \/ \E outcome \in WriteOutcomes : ClearAllBackup(1, outcome)
    \/ \E outcome \in WriteOutcomes : ClearAllWrite(1, outcome)
    \/ \E u \in ChatSenders : ArriveChat(2, u)
    \/ InjectGate(2)
    \/ \E ok \in ReadOutcomes, all_ok \in ReadOutcomes, glob_ok \in BOOLEAN, ctx \in CommandChatContexts :
          InjectPrompt(2, ok, all_ok, glob_ok, ctx)
    \/ Tick

SpecCommand == InitCommand /\ [][NextCommand]_vars

\* The commands of a bot-superuser and the responses of the chat message
\* beside them: plain text, an unchanged tag, and text with an increase.
FailureKinds == {"clear_all", "modify"}

FailureTexts == {<<"x">>, TFlat9, <<"x">> \o TUp2}

\* The plugin with no record or with a record of each of two users.
InitFailure ==
    /\ is_global_favour = FALSE
    /\ store \in {<<>>,
                  <<Rec(U1, Origin, 2, <<"x">>), Rec(U2, Origin, 5, <<>>)>>}
    /\ global_data = [u \in UserIds |-> None]
    /\ pending_updates = [e \in Events |-> None]
    /\ cold_violence_users = [u \in UserIds |-> None]
    /\ now = 0
    /\ lock = 0
    /\ ev = [e \in Events |-> NewEvent]
    /\ nfin = 0
    /\ favour_records = <<>>

\* A command of the bot-superuser and a chat message of the first user, with
\* reads and writes of the store that fail.
NextFailure ==
    \/ \E kind \in FailureKinds, value \in CommandValues :
          ArriveCommand(1, kind, U2, U1, value, None)
    \/ modify_favour(1)
    \/ ModifyReply(1)
    \/ ClearAllStart(1)
    \/ \E ok \in BOOLEAN : ClearAllRead(1, ok)
    \/ ClearAllReadRaises(1)
    \/ \E outcome \in WriteOutcomes : ClearAllBackup(1, outcome)
    \/ \E outcome \in WriteOutcomes : ClearAllWrite(1, outcome)
    \/ \E u \in ChatSenders : ArriveChat(2, u)
    \/ InjectGate(2)
    \/ \E ok \in ReadOutcomes, all_ok \in ReadOutcomes, ctx \in {None} :
          InjectPrompt(2, ok, all_ok, TRUE, ctx)
    \/ \E text \in FailureTexts : handle_llm_response(2, text)
    \/ DeliverResponse(2)
    \/ \E ok \in BOOLEAN, ctx \in {None} : FinalizeRead(2, ok, TRUE, ctx)
    \/ FinalizeReadRaises(2)
    \/ \E e \in Events, ok \in BOOLEAN : UpdateBegin(e, ok)
    \/ \E e \in Events : UpdateRaises(e)
    \/ \E e \in Events, outcome \in WriteOutcomes : UpdateEnd(e, outcome)

SpecFailure == InitFailure /\ [][NextFailure]_vars

\* ----------------------------------------------------------------- properties

\* A conversation other than the one the messages come from.
OtherOrigin == "s2"

\* The lists haogan.json may hold when a request is made: in the scope sid,
\* a record of another user with an exclusive relationship, one of a third
\* user whose relationship holds the keyword, and none or one record of the
\* sender, with a relationship that is not exclusive or one that is; and in
\* another conversation a record with an exclusive relationship.
AdvisoryStores(sid) ==
    {(IF a THEN <<Rec(U2, sid, 5, <<"qi">>)>> ELSE <<>>)
       \o (IF b THEN <<Rec(UEnvoy, sid, 5, <<"x", "qi">>)>> ELSE <<>>)
       \o (IF c THEN <<Rec(U2, OtherOrigin, 5, <<"qi">>)>> ELSE <<>>)
       \o (IF d = 0 THEN <<>>
           ELSE <<Rec(U1, sid, 5, IF d = 1 THEN <<"x">> ELSE <<"qi">>)>>) :
     a \in BOOLEAN, b \in BOOLEAN, c \in BOOLEAN, d \in 0..2}

\* The plugin in either mode, with one of these lists.
InitAdvisory ==
    /\ is_global_favour \in BOOLEAN
    /\ store \in AdvisoryStores(IF is_global_favour THEN NoSession ELSE Origin)
    /\ global_data = [u \in UserIds |-> None]
    /\ pending_updates = [e \in Events |-> None]
    /\ cold_violence_users = [u \in UserIds |-> None]
    /\ now = 0
    /\ lock = 0
    /\ ev = [e \in Events |-> NewEvent]
    /\ nfin = 0
    /\ favour_records = <<>>

\* One message of the first user, from its arrival to its finalize hook; the
\* read of the list for the advisory succeeds or fails.
NextAdvisory ==
    \/ \E u \in ChatSenders : ArriveChat(1, u)
    \/ InjectGate(1)
    \/ \E ok \in ReadOutcomes, all_ok \in BOOLEAN, ctx \in {None} :
          InjectPrompt(1, ok, all_ok, TRUE, ctx)
    \/ \E text \in InitialTexts : handle_llm_response(1, text)
    \/ \E chain \in ResultChains : FinalizeTake(1, chain)
    \/ \E ok \in ReadOutcomes, ctx \in {None} : FinalizeRead(1, ok, TRUE, ctx)
    \/ \E ok \in ReadOutcomes : UpdateBegin(1, ok)
    \/ \E outcome \in WriteOutcomes : UpdateEnd(1, outcome)

SpecAdvisory == InitAdvisory /\ [][NextAdvisory]_vars

\* ------------------------------------------------- several conversations
\* The conversations a message may come from.
Origins == {Origin, OtherOrigin}

ScopeSenders == {U1, U2}

ScopeKinds == {"query_my", "cancel"}

\* The plugin in per-conversation mode with a record of the first user, one
\* reply away from the cold-violence threshold, in one conversation or the
\* other or both; every message has its own conversation.
InitScopes ==
    /\ is_global_favour = FALSE
    /\ store \in {<<Rec(U1, Origin, cold_violence_threshold + 2, <<>>)>>,
                  <<Rec(U1, OtherOrigin, cold_violence_threshold + 2, <<>>)>>,
                  <<Rec(U1, Origin, cold_violence_threshold + 2, <<>>),
                    Rec(U1, OtherOrigin, 5, <<>>)>>}
    /\ global_data = [u \in UserIds |-> None]
    /\ pending_updates = [e \in Events |-> None]
    /\ cold_violence_users = [u \in UserIds |-> None]
    /\ now = 0
    /\ lock = 0
    /\ ev \in {[e \in Events |-> [NewEvent EXCEPT !.unified_msg_origin = o[e]]] :
                  o \in [Events -> Origins]}
    /\ nfin = 0
    /\ favour_records = <<>>

\* A message of the first user from its arrival to its finalize hook, and
\* after it messages and commands of the same or another user, anywhere.
NextScopes ==
    \/ \E u \in ChatSenders : ArriveChat(1, u)
    \/ \E e \in Events \ {1}, u \in ScopeSenders : ArriveChat(e, u)
    \/ \E e \in Events : InjectGate(e)
    \/ \E ok \in ReadOutcomes, all_ok \in ReadOutcomes, ctx \in {None} :
          InjectPrompt(1, ok, all_ok, TRUE, ctx)
    \/ \E text \in {TDown3, <<"x">>} : handle_llm_response(1, text)
    \/ \E chain \in ResultChains : FinalizeTake(1, chain)
    \/ \E ok \in ReadOutcomes, ctx \in {None} : FinalizeRead(1, ok, TRUE, ctx)
    \/ \E ok \in ReadOutcomes : UpdateBegin(1, ok)
    \/ \E outcome \in WriteOutcomes : UpdateEnd(1, outcome)
    \/ \E e \in Events \ {1}, kind \in ScopeKinds, u \in ScopeSenders :
          ArriveCommand(e, kind, u, U1, None, None)
    \/ \E e \in Events \ {1} : cancel_cold_violence(e)
    \/ \E e \in Events \ {1}, ok \in ReadOutcomes, glob_ok \in BOOLEAN :
          query_my_favour(e, ok, glob_ok)
    \/ Tick

SpecScopes == InitScopes /\ [][NextScopes]_vars

\* ------------------------------------------------- concurrent commands
StoreKinds == {"modify", "delete"}

StoreWideKinds == {"clear_conversation", "clear_all"}

StoreValues == {Some(5), Some(-60)}

\* The plugin in per-conversation mode with no record or with one record of
\* each of two users in one conversation and one in the other; every
\* message has its own conversation.
InitStore ==
    /\ is_global_favour = FALSE
    /\ store \in {<<>>,
                  <<Rec(U1, Origin, 7, <<>>), Rec(U2, Origin, 7, <<"x">>),
                    Rec(U1, OtherOrigin, 7, <<>>)>>}
    /\ global_data = [u \in UserIds |-> None]
    /\ pending_updates = [e \in Events |-> None]
    /\ cold_violence_users = [u \in UserIds |-> None]
    /\ now = 0
    /\ lock = 0
    /\ ev \in {[e \in Events |-> [NewEvent EXCEPT !.unified_msg_origin = o[e]]] :
                  o \in [Events -> Origins]}
    /\ nfin = 0
    /\ favour_records = <<>>

\* Commands of the administrator that change the list, each handler
\* running beside the others.
NextStore ==
    \/ \E e \in Events, kind \in StoreKinds, arg \in CommandTargets, value \in StoreValues :
          ArriveCommand(e, kind, U2, arg, value, None)
    \/ \E e \in Events, kind \in StoreWideKinds :
          ArriveCommand(e, kind, U2, <<>>, None, None)
    \/ \E e \in Events : modify_favour(e)
    \/ \E e \in Events, ok \in ReadOutcomes : UpdateBegin(e, ok)
    \/ \E e \in Events, outcome \in WriteOutcomes : UpdateEnd(e, outcome)
    \/ \E e \in Events : ModifyReply(e)
    \/ \E e \in Events : DeleteStart(e)
    \/ \E e \in Events, ok \in ReadOutcomes : DeleteBegin(e, ok)
    \/ \E e \in Events, outcome \in WriteOutcomes : DeleteEnd(e, outcome)
    \/ \E e \in Events : ClearConversationStart(e)
    \/ \E e \in Events, ok \in ReadOutcomes : ClearConversationBegin(e, ok)
    \/ \E e \in Events, outcome \in WriteOutcomes : ClearConversationEnd(e, outcome)
    \/ \E e \in Events : ClearAllStart(e)
    \/ \E e \in Events, ok \in ReadOutcomes : ClearAllRead(e, ok)
    \/ \E e \in Events, outcome \in WriteOutcomes : ClearAllBackup(e, outcome)
    \/ \E e \in Events, outcome \in WriteOutcomes : ClearAllWrite(e, outcome)

SpecStore == InitStore /\ [][NextStore]_vars

\* ------------------------------------------------------------ the database
\* FavourDBManager of storage.py: the table favour_records, the import of
\* the two JSON files into it, and its reads and updates.

\* The bounds of a FavourDBManager.
min_val == -100

max_val == 100

\* FavourRecord.session_id of the global scope
GlobalScope == "global"

FavourRecord(user_id, session_id, favour, relationship, is_unique) ==
    [user_id |-> user_id, session_id |-> session_id, favour |-> favour,
     relationship |-> relationship, is_unique |-> is_unique]

\* The rows of (user_id, sid), in the order of the table.
RowsOf(records, user_id, sid) ==
    {i \in 1..Len(records) :
        records[i].user_id = user_id /\ records[i].session_id = sid}

\* session_id if session_id else "global"
ScopeOf(session_id) == IF session_id = None THEN GlobalScope ELSE The(session_id)

\* get_favour: the first row of (user_id, session_id or "global"), or None.
get_favour(records, user_id, session_id) ==
    IF RowsOf(records, user_id, ScopeOf(session_id)) = {} THEN None
    ELSE Some(records[Min(RowsOf(records, user_id, ScopeOf(session_id)))])

\* str(item.get("session_id", "")) or "global": the null of the JSON file is
\* None, whose str is "None"; the empty string gives "global".
ImportedScope(session_id) ==
    IF session_id = NoSession THEN "None"
    ELSE IF session_id = "" THEN GlobalScope
    ELSE session_id

RECURSIVE ImportListUnchecked(_, _)
ImportListUnchecked(records, data) ==
    IF data = <<>> THEN records
    ELSE LET item == Head(data)
             uid == item.userid
             sid == ImportedScope(item.session_id)
         IN  IF uid = <<>> THEN ImportListUnchecked(records, Tail(data))
             ELSE ImportListUnchecked(
                      Append(records,
                             FavourRecord(uid, sid, item.favour, item.relationship, FALSE)),
                      Tail(data))

\* The loop of migrate_from_json over the list of haogan.json: an item
\* without a user id is skipped; an item whose (user id, scope) has no row,
\* the rows added before it in the loop included, is added as it is.
RECURSIVE ImportList(_, _)
ImportList(records, data) ==
    IF data = <<>> THEN records
    ELSE LET item == Head(data)
             uid == item.userid
             sid == ImportedScope(item.session_id)
         IN  IF uid = <<>> \/ RowsOf(records, uid, sid) # {}
             THEN ImportList(records, Tail(data))
             ELSE ImportList(
                      Append(records,
                             FavourRecord(uid, sid, item.favour, item.relationship, FALSE)),
                      Tail(data))

\* The order in which the keys of global_favour.json are met.
GlobalKeys == <<U1, U2, UBad, UEnvoy>>

\* The loop of migrate_from_json over the map of global_favour.json: a user
\* without a row in the global scope gets one, with int(fav).
RECURSIVE ImportMap(_, _, _)
ImportMap(records, data, keys) ==
    IF keys = <<>> THEN records
    ELSE LET uid == Head(keys)
         IN  IF data[uid] = None \/ RowsOf(records, uid, GlobalScope) # {}
             THEN ImportMap(records, data, Tail(keys))
             ELSE ImportMap(
                      Append(records,
                             FavourRecord(uid, GlobalScope, The(data[uid]), <<>>, FALSE)),
                      data, Tail(keys))

\* migrate_from_json(json_path, is_global): the file is read and its items
\* are added in one session, which is committed at the end; when anything
\* raises before the commit, nothing is added.  When rows were added the
\* file is moved to its backup, unless the move raises.
migrate_from_json(is_global, raised, moved) ==
    /\ IF raised
       THEN UNCHANGED <<favour_records, store, global_data>>
       ELSE LET migrated == IF is_global
                            THEN ImportMap(favour_records, global_data, GlobalKeys)
                            ELSE ImportList(favour_records, store)
                count == Len(migrated) - Len(favour_records)
            IN  /\ favour_records' = migrated
                /\ store' = IF ~ is_global /\ count > 0 /\ moved THEN <<>> ELSE store
                /\ global_data' = IF is_global /\ count > 0 /\ moved
                                  THEN [u \in UserIds |-> None] ELSE global_data
    /\ UNCHANGED <<is_global_favour, pending_updates, cold_violence_users, now,
                   lock, ev, nfin>>

\* max(self.min_val, min(self.max_val, favour))
ClampVal(favour) == Max({min_val, Min({max_val, favour})})

\* The table after update_favour: a new row, or the first row of the key with
\* the given fields set.
UpdatedRecords(records, user_id, sid, favour, relationship, is_unique) ==
    IF RowsOf(records, user_id, sid) = {}
    THEN Append(records,
                FavourRecord(user_id, sid,
                             IF favour # None THEN ClampVal(The(favour)) ELSE 0,
                             IF relationship # None THEN The(relationship) ELSE <<>>,
                             IF is_unique # None THEN The(is_unique) ELSE FALSE))
    ELSE [records EXCEPT ![Min(RowsOf(records, user_id, sid))] =
            [@ EXCEPT !.favour = IF favour # None THEN ClampVal(The(favour)) ELSE @,
                      !.relationship =
                          IF relationship # None THEN The(relationship) ELSE @,
                      !.is_unique = IF is_unique # None THEN The(is_unique) ELSE @]]

\* update_favour: nothing for an invalid user id or when the session raises.
update_favour(user_id, session_id, favour, relationship, is_unique, ok) ==
    /\ favour_records' =
          IF is_valid_userid(user_id) /\ ok
          THEN UpdatedRecords(favour_records, user_id, ScopeOf(session_id),
                              favour, relationship, is_unique)
          ELSE favour_records
    /\ UNCHANGED <<is_global_favour, store, global_data, pending_updates,
                   cold_violence_users, now, lock, ev, nfin>>

\* update_user_all_records: the given fields are set in every row of the
\* user.
update_user_all_records(user_id, favour, relationship, is_unique, ok) ==
    /\ favour_records' =
          IF is_valid_userid(user_id) /\ ok
          THEN [i \in 1..Len(favour_records) |->
                  IF favour_records[i].user_id # user_id THEN favour_records[i]
                  ELSE [favour_records[i] EXCEPT
                          !.favour = IF favour # None THEN ClampVal(The(favour)) ELSE @,
                          !.relationship =
                              IF relationship # None THEN The(relationship) ELSE @,
                          !.is_unique = IF is_unique # None THEN The(is_unique) ELSE @]]
          ELSE favour_records
    /\ UNCHANGED <<is_global_favour, store, global_data, pending_updates,
                   cold_violence_users, now, lock, ev, nfin>>

\* The lists haogan.json may hold when it is imported: records written in
\* global mode (session_id null) and in a conversation, an item without a
\* session, an item without a user id, and a second item of a key.
LegacyLists ==
    {(IF a THEN <<Rec(U1, NoSession, 5, <<"x">>)>> ELSE <<>>)
       \o (IF b THEN <<Rec(U1, Origin, -3, <<>>)>> ELSE <<>>)
       \o (IF c THEN <<Rec(U2, "", 7, <<>>)>> ELSE <<>>)
       \o (IF d THEN <<Rec(<<>>, Origin, 1, <<>>)>> ELSE <<>>)
       \o (IF b /\ f THEN <<Rec(U1, Origin, 9, <<"x">>)>> ELSE <<>>) :
     a \in BOOLEAN, b \in BOOLEAN, c \in BOOLEAN, d \in BOOLEAN, f \in BOOLEAN}

\* The tables the import may meet: empty, or with a row of the first user in
\* the global scope or in the conversation.
LegacyTables ==
    {<<>>, <<FavourRecord(U1, GlobalScope, -7, <<>>, FALSE)>>,
     <<FavourRecord(U1, Origin, 4, <<"x">>, TRUE)>>}

InitMigrate ==
    /\ is_global_favour = FALSE
    /\ store \in LegacyLists
    /\ global_data \in GlobalFiles
    /\ pending_updates = [e \in Events |-> None]
    /\ cold_violence_users = [u \in UserIds |-> None]
    /\ now = 0
    /\ lock = 0
    /\ ev = [e \in Events |-> NewEvent]
    /\ nfin = 0
    /\ favour_records \in LegacyTables

\* The importer alone, run any number of times on the two files.
NextMigrate ==
    \E is_global \in BOOLEAN, raised \in BOOLEAN, moved \in BOOLEAN :
        migrate_from_json(is_global, raised, moved)

SpecMigrate == InitMigrate /\ [][NextMigrate]_vars

\* What the callers of the updates pass.
DatabaseUsers == {U1, UBad}

DatabaseSessions == {None, Some(Origin)}

DatabaseValues == {None, Some(max_val + 50), Some(5)}

DatabaseRelationships == {None, Some(<<"qi">>)}

\* A table that starts empty, and a list of one record or none: imports and
\* updates.
InitDatabase ==
    /\ is_global_favour = FALSE
    /\ store \in {<<>>, <<Rec(U1, Origin, -3, <<>>)>>}
    /\ global_data \in GlobalFiles
    /\ pending_updates = [e \in Events |-> None]
    /\ cold_violence_users = [u \in UserIds |-> None]
    /\ now = 0
    /\ lock = 0
    /\ ev = [e \in Events |-> NewEvent]
    /\ nfin = 0
    /\ favour_records = <<>>

NextDatabase ==
    \/ \E is_global \in BOOLEAN, raised \in BOOLEAN, moved \in BOOLEAN :
          migrate_from_json(is_global, raised, moved)
    \/ \E user_id \in DatabaseUsers, session_id \in DatabaseSessions,
          favour \in DatabaseValues, relationship \in DatabaseRelationships,
          is_unique \in {None, Some(TRUE)}, ok \in BOOLEAN :
          update_favour(user_id, session_id, favour, relationship, is_unique, ok)
    \/ \E user_id \in DatabaseUsers, favour \in DatabaseValues, ok \in BOOLEAN :
          update_user_all_records(user_id, favour, None, None, ok)

SpecDatabase == InitDatabase /\ [][NextDatabase]_vars

\* The record of user u in the scope the plugin works in, in a list.
RecordOf(data, u) == FindRecord(data, u, _get_session_id(NewEvent))

\* Event e is a message whose finalize hook holds a taken update and has not
\* returned.
InReconcile(e) ==
    ev[e].kind = "chat" /\ ev[e].pc \in {"fin_read", "upd_lock", "upd_commit"}

\* The step in which the finalize hook of event e, having reconciled, returns.
ReconcileReturns(e) == InReconcile(e) /\ ev'[e].pc = "idle"

\* The step in which update_user_favour, called by the finalize hook of event
\* e, writes the list and the write reaches the file.
ReconcileWrites(e) ==
    /\ ev[e].kind = "chat" /\ ev[e].pc = "upd_commit" /\ ev'[e].pc = "idle"
    /\ store' = UpdatedData(ev[e].data, Strip(The(ev[e].target)), _get_session_id(ev[e]),
                            ev[e].arg_favour, ev[e].arg_relationship)

\* The value the reconciliation of event e ends with: the one it computed,
\* or, on the path that finds nothing to change, the one it reads.
NewValue(e) ==
    IF ev[e].rc # None THEN The(ev[e].rc).new_favour
    ELSE The(RecordOf(store, ev[e].sender)).favour

\* C1: every persisted record's value lies in min_bound..max_bound, whatever
\* reconciliations and modify commands have run.
C1_ValuesInRange ==
    \A i \in 1..Len(store) :
        min_bound <= store[i].favour /\ store[i].favour <= max_bound

\* A reconciliation has run and a record sits at the upper bound: of the
\* records and deltas of the model only 99 with an increase of 2 gets there.
C1_Saturated ==
    /\ nfin > 0
    /\ \E i \in 1..Len(store) : store[i].favour = max_bound

\* C2: with only reconciliations running, each reconciliation's write of a
\* value leaves the record with the value that was persisted just before it
\* plus its delta, clamped: no reconciliation's delta is lost.
C2_NoLostUpdate ==
    [][\A e \in Events :
          (/\ ReconcileWrites(e)
           /\ ev[e].arg_favour # None
           /\ \A d \in Events : ev[d].kind # "modify"
           /\ RecordOf(store, ev[e].sender) # None)
          => /\ RecordOf(store', ev[e].sender) # None
             /\ The(RecordOf(store', ev[e].sender)).favour =
                   Max({min_bound,
                        Min({max_bound,
                             The(RecordOf(store, ev[e].sender)).favour
                               + The(ev[e].update_data).favour_change})})]_vars

\* C3: a finalize hook starts a reconciliation only by taking the parked
\* entry of its message, which is gone from then on; a finalize that finds
\* no entry changes neither the store nor the cold-violence map.
C3_AtMostOnce ==
    [][\A e \in Events :
          /\ (~ InReconcile(e) /\ InReconcile(e)')
                => /\ pending_updates[e] # None
                   /\ pending_updates'[e] = None
                   /\ ev'[e].update_data = pending_updates[e]
          /\ InReconcile(e)' => pending_updates'[e] = None
          /\ (nfin' # nfin /\ ev[e].pc = "idle" /\ ev'[e] # ev[e]
                /\ pending_updates[e] = None)
                => /\ ~ InReconcile(e)'
                   /\ store' = store
                   /\ cold_violence_users' = cold_violence_users]_vars

\* Two finalize hooks have run for the first message, whose one parked
\* decrease of 3 was applied once to the record of value 2.
C3_SecondFinalize ==
    /\ nfin = 2
    /\ ev[1].pc = "idle" /\ ev[1].kind = "chat"
    /\ ev[2].pc = "new"
    /\ pending_updates[1] = None
    /\ store = <<Rec(U1, Origin, -1, <<>>)>>

\* C4: the step that parses a response changes neither the store nor the
\* cold-violence map; the store is written for a message only by a finalize
\* hook that holds the taken entry of that message, and cold violence is
\* armed only by such a hook.
C4_ParseCommitsNothing ==
    [][/\ (\E e \in Events : ev[e].pc = "llm" /\ ev'[e].pc # "llm")
            => store' = store /\ cold_violence_users' = cold_violence_users
       /\ store' # store
            => \E e \in Events :
                  /\ ev[e].pc = "upd_commit"
                  /\ ev[e].kind = "chat"
                        => ev[e].update_data # None /\ pending_updates[e] = None
       /\ (\E u \in UserIds : /\ cold_violence_users'[u] # cold_violence_users[u]
                              /\ cold_violence_users'[u] # None)
            => \E e \in Events : ReconcileReturns(e) /\ ev[e].update_data # None]_vars

\* A response with a change was parsed and parked, and no finalize hook has
\* run.
C4_ParkedNotFinalized ==
    \E e \in Events :
        /\ ev[e].pc = "idle" /\ ev[e].completion_text # None
        /\ pending_updates[e] # None
        /\ The(pending_updates[e]).favour_change # 0
        /\ nfin = 0

\* C5: a reconciliation that read a record with a relationship and ends with
\* a value below 0 writes the record back with an empty relationship, which
\* is then no exclusive one either, whether or not the update carries a
\* granted relationship.
C5_Revocation ==
    [][\A e \in Events :
          (/\ ReconcileWrites(e)
           /\ The(ev[e].rc).found
           /\ The(ev[e].rc).old_relationship # <<>>
           /\ The(ev[e].rc).new_favour < 0)
          => /\ RecordOf(store', ev[e].sender) # None
             /\ The(RecordOf(store', ev[e].sender)).relationship = <<>>
             /\ ~ IsExclusive(The(RecordOf(store', ev[e].sender)).relationship)]_vars

\* The finalize hook of a response that raises the value and grants a
\* relationship has read a record with a relationship and a value that stays
\* below 0, and is about to write.
C5_GrantOnNegative ==
    \E e \in Events :
        /\ ev[e].kind = "chat" /\ ev[e].pc = "upd_commit"
        /\ The(ev[e].rc).found
        /\ The(ev[e].rc).old_relationship # <<>>
        /\ The(ev[e].rc).new_favour < 0
        /\ The(ev[e].update_data).relationship_update \notin {None, Some(<<>>)}
        /\ ev[e].arg_relationship = Some(<<>>)

\* C6: a reconciliation that ends with a value below 0, for a record that
\* exists or a new one, with or without a granted relationship, leaves the
\* persisted relationship of the record empty.
C6_NegativeRevokes ==
    [][\A e \in Events :
          (ReconcileWrites(e) /\ The(ev[e].rc).new_favour < 0)
          => /\ RecordOf(store', ev[e].sender) # None
             /\ The(RecordOf(store', ev[e].sender)).relationship = <<>>]_vars

\* C7: the finalize hook that returns from a reconciliation arms cold
\* violence for its user, until now plus the duration, exactly when its delta
\* is negative and its new value is at or below the threshold, and otherwise
\* leaves the map as it is; nothing else creates or refreshes an entry.
C7_ArmedIffDecreaseToThreshold ==
    [][/\ \A e \in Events :
            ReconcileReturns(e)
            => IF /\ The(ev[e].update_data).favour_change < 0
                  /\ NewValue(e) <= cold_violence_threshold
               THEN cold_violence_users' =
                       [cold_violence_users EXCEPT
                          ![ev[e].sender] = Some(now + cold_violence_duration_minutes)]
               ELSE cold_violence_users' = cold_violence_users
       /\ \A u \in UserIds :
            (/\ cold_violence_users'[u] # cold_violence_users[u]
             /\ cold_violence_users'[u] # None)
            => \E e \in Events : ReconcileReturns(e) /\ ev[e].sender = u]_vars

\* Cold violence is armed for a user whose record sits at or below the
\* threshold, and a reconciliation for that user with an increase is about
\* to return.
C7_ArmedAndIncrease ==
    \E e \in Events :
        /\ InReconcile(e) /\ ev[e].rc # None
        /\ The(ev[e].update_data).favour_change > 0
        /\ The(ev[e].rc).new_favour <= cold_violence_threshold
        /\ cold_violence_users[ev[e].sender] # None

\* C8: a request that meets an entry of its user with now before the expiry
\* is stopped with the canned reply, without a prompt, and goes nowhere from
\* there; any other request removes the entry and goes on to the prompt and
\* the model; a request reaches the model only through the prompt.
C8_CooldownGate ==
    [][\A e \in Events :
          /\ (ev[e].pc = "req_gate" /\ ev'[e].pc # "req_gate")
                => IF /\ cold_violence_users[ev[e].sender] # None
                      /\ now < The(cold_violence_users[ev[e].sender])
                   THEN /\ ev'[e].pc = "stopped" /\ ev'[e].stopped
                        /\ ev'[e].sent = "on_message"
                        /\ ev'[e].prompt = None
                        /\ cold_violence_users' = cold_violence_users
                   ELSE /\ ev'[e].pc = "req_inject" /\ ~ ev'[e].stopped
                        /\ cold_violence_users' =
                              [cold_violence_users EXCEPT ![ev[e].sender] = None]
          /\ ev[e].pc = "stopped" => ev'[e] = ev[e]
          /\ (ev[e].pc # "llm" /\ ev'[e].pc = "llm")
                => ev[e].pc = "req_inject" /\ ev'[e].prompt # None]_vars

\* A request was stopped at half the duration after the arming, and the
\* entry is still there.
C8_StoppedInCooldown ==
    \E e \in Events :
        /\ ev[e].pc = "stopped" /\ ev[e].stopped /\ ev[e].sent = "on_message"
        /\ now > 0
        /\ cold_violence_users[ev[e].sender] # None
        /\ now < The(cold_violence_users[ev[e].sender])

\* C9: whenever a finalize hook arms cold violence, the value persisted for
\* its user at that moment is the new value of the reconciliation, at or
\* below the threshold.
C9_ArmedValuePersisted ==
    [][\A e \in Events :
          (/\ ReconcileReturns(e)
           /\ The(ev[e].update_data).favour_change < 0
           /\ NewValue(e) <= cold_violence_threshold
           /\ cold_violence_users'[ev[e].sender]
                 = Some(now + cold_violence_duration_minutes))
          => /\ RecordOf(store', ev[e].sender) # None
             /\ The(RecordOf(store', ev[e].sender)).favour = NewValue(e)
             /\ The(RecordOf(store', ev[e].sender)).favour
                   <= cold_violence_threshold]_vars

\* The characters one of which every affinity tag with a direction has.
DirectionChars == {jiang, di, shang, sheng, chi, ping}

\* The characters of an increase or a decrease.
ChangeChars == {jiang, di, shang, sheng}

\* The bracketed tag around position i of t.
TagAround(t, i) ==
    SubSeq(t, Max({j \in 1..i : t[j] \in OpenBrackets}),
              Min({j \in i..Len(t) : t[j] \in CloseBrackets}))

\* The change of the tag that holds the last direction character of t.
LastTagChange(t) ==
    The(TagChange(TagAround(t, Max({i \in 1..Len(t) : t[i] \in DirectionChars}))))

\* C10: the delta parked for a response with affinity tags is the change of
\* the last tag that has one, whatever the tags before it say, and 0 when no
\* tag has one.
C10_LastTagWins ==
    \A e \in Events :
        (ev[e].pc = "idle" /\ ev[e].completion_text # None)
        => LET t == The(ev[e].completion_text)
           IN  /\ Contains(t, DirectionChars)
                    => /\ pending_updates[e] # None
                       /\ The(pending_updates[e]).favour_change = LastTagChange(t)
               /\ (~ Contains(t, DirectionChars) /\ pending_updates[e] # None)
                    => The(pending_updates[e]).favour_change = 0

\* An increase of 2 followed by a decrease of 15 was parsed, and the
\* decrease, clamped to the largest decrease, is parked.
C10_IncreaseThenDecrease ==
    \E e \in Events :
        /\ ev[e].pc = "idle"
        /\ ev[e].completion_text = Some(TUp2 \o TDown15)
        /\ pending_updates[e] # None
        /\ The(pending_updates[e]).favour_change = 0 - favour_decrease_max

\* A tag that is neither an increase nor a decrease without a number.
HasMagnitudeOrNoChange(m) == Contains(m, Digits) \/ ~ Contains(m, ChangeChars)

\* C11: an increase or decrease tag without a number is dropped: the parked
\* delta is the one the response parks without such tags, so the last tag
\* before it that has a change decides, and 0 is parked when there is none.
C11_NumberlessDropped ==
    \A e \in Events :
        (/\ ev[e].pc = "idle" /\ ev[e].completion_text # None
         /\ pending_updates[e] # None)
        => The(pending_updates[e]).favour_change =
              LastValidChange(ChangesOf(
                 SelectSeq(FavourFindall(The(ev[e].completion_text)),
                           HasMagnitudeOrNoChange)))

\* v, brought into lo..hi.
Within(lo, hi, v) == IF v < lo THEN lo ELSE IF v > hi THEN hi ELSE v

\* C12: the parked delta of a response is the number of its deciding tag
\* brought into favour_increase_min..favour_increase_max for an increase and,
\* negated, into favour_decrease_min..favour_decrease_max for a decrease, and
\* 0 otherwise, whatever the number in the tag.
C12_MagnitudeClamped ==
    \A e \in Events :
        (/\ ev[e].pc = "idle" /\ ev[e].completion_text # None
         /\ pending_updates[e] # None)
        => LET t == The(ev[e].completion_text)
               change == The(pending_updates[e]).favour_change
               tag == TagAround(t, Max({i \in 1..Len(t) : t[i] \in DirectionChars}))
           IN  IF ~ Contains(t, DirectionChars) THEN change = 0
               ELSE IF Contains(tag, {jiang, di})
               THEN /\ change = 0 - Within(favour_decrease_min, favour_decrease_max,
                                           TagValue(tag))
                    /\ 0 - favour_decrease_max <= change
                    /\ change <= 0 - favour_decrease_min
               ELSE IF Contains(tag, {shang, sheng})
               THEN /\ change = Within(favour_increase_min, favour_increase_max,
                                       TagValue(tag))
                    /\ favour_increase_min <= change
                    /\ change <= favour_increase_max
               ELSE change = 0

\* A decrease of 15 alone was parsed and is parked as the largest decrease.
C12_Decrease15Parked ==
    \E e \in Events :
        /\ ev[e].pc = "idle"
        /\ ev[e].completion_text = Some(TDown15)
        /\ pending_updates[e] =
              Some([favour_change |-> 0 - favour_decrease_max,
                    relationship_update |-> None])

\* Position i of t lies in a bracketed tag.
InTag(t, i) ==
    \E j \in 1..i, k \in i..Len(t) :
        /\ t[j] \in OpenBrackets /\ t[k] \in CloseBrackets
        /\ \A x \in (j + 1)..(k - 1) : t[x] \notin Brackets

\* The characters of t from position i on that lie in no bracketed tag.
RECURSIVE OutsideTags(_, _)
OutsideTags(t, i) ==
    IF i > Len(t) THEN <<>>
    ELSE (IF InTag(t, i) THEN <<>> ELSE <<t[i]>>) \o OutsideTags(t, i + 1)

\* The chain that delivers t without its tags.
WithoutTags(t) ==
    IF Strip(OutsideTags(t, 1)) = <<>> THEN <<>> ELSE <<Strip(OutsideTags(t, 1))>>

\* The change of the deciding tag of t: of the tag with the last direction
\* character, 0 when that tag is neither an increase nor a decrease or when
\* there is none.
DecidingChange(t) ==
    IF ~ Contains(t, DirectionChars) THEN 0
    ELSE IF Contains(TagAround(t, Max({i \in 1..Len(t) : t[i] \in DirectionChars})),
                     ChangeChars)
    THEN LastTagChange(t)
    ELSE 0

\* C13: the parse of a response parks an update whenever the response has an
\* affinity tag, with direction or not; the parked delta is that of the last
\* tag with a direction, and 0 when that tag says unchanged, whatever number
\* it holds; and the response is delivered without its tags, those without
\* a direction included.
C13_UnchangedAndNoDirection ==
    [][\A e \in Events :
          /\ (ev[e].pc = "llm" /\ ev'[e].pc = "idle")
                => LET t == The(ev'[e].completion_text)
                   IN  (\E i \in 1..Len(t) : t[i] = hao /\ InTag(t, i))
                       => /\ pending_updates'[e] # None
                          /\ The(pending_updates'[e]).favour_change = DecidingChange(t)
          /\ (/\ ev[e].completion_text # None
              /\ ev'[e].pc = "idle"
              /\ nfin' # nfin \/ InReconcile(e)
              /\ cold_violence_users' = cold_violence_users)
                => ev'[e].chain = WithoutTags(The(ev[e].completion_text))]_vars

\* An increase of 2 followed by a tag with no direction was parsed and
\* delivered: the hook holds the increase of 2 and is about to write it.
C13_NoDirectionAfterIncrease ==
    \E e \in Events :
        /\ ev[e].pc = "upd_commit"
        /\ ev[e].completion_text = Some(TUp2 \o TNoDirection)
        /\ ev[e].chain = <<TUp2 \o TNoDirection>>
        /\ The(ev[e].update_data).favour_change = favour_increase_max - 1

\* The relationship tag of t that starts last: its name between the marker
\* and the colon, trimmed, and its boolean.
LastRelTag(t) ==
    LET mark == Max({i \in 1..Len(t) : t[i] = MARK})
        close == Min({k \in mark..Len(t) : t[k] \in CloseBrackets})
        colon == Min({c \in mark..close : t[c] \in Colons})
    IN  [name |-> Strip(SubSeq(t, mark + 1, colon - 1)),
         bool |-> SubSeq(t, colon + 1, close - 1)]

\* C14: of the relationship tags of a response only the last decides: its
\* name, trimmed, is parked when its boolean is true, in any case of letters,
\* and the name is not empty; otherwise no relationship is parked, whatever
\* the tags before it grant.
C14_LastRelationshipTag ==
    \A e \in Events :
        (/\ ev[e].pc = "idle" /\ ev[e].completion_text # None
         /\ The(ev[e].completion_text) \in RelTexts)
        => LET tag == LastRelTag(The(ev[e].completion_text))
           IN  IF tag.bool \in {<<"true">>, <<"TRUE">>} /\ tag.name # <<>>
               THEN pending_updates[e] =
                       Some([favour_change |-> 0,
                             relationship_update |-> Some(tag.name)])
               ELSE pending_updates[e] = None

\* A grant followed by a refusal was parsed, and nothing is parked.
C14_GrantThenRefusal ==
    \E e \in Events :
        /\ ev[e].pc = "idle"
        /\ ev[e].completion_text = Some(TGrant \o TRefuse)
        /\ pending_updates[e] = None

\* C15: a relationship tag with a second boolean parks the name written
\* before the first colon, granted by the first boolean.
C15_SecondBoolean ==
    \A e \in Events :
        (/\ ev[e].pc = "idle" /\ ev[e].completion_text # None
         /\ The(ev[e].completion_text) \in UniqueTexts)
        => /\ pending_updates[e] # None
           /\ The(pending_updates[e]).relationship_update =
                 Some(LastRelTag(The(ev[e].completion_text)).name)

\* C16: the finalize hook applies what the latest parse of the message's
\* response produced: the update of that parse when the response has a tag,
\* and nothing when it has none, whatever an earlier parse had parked.
C16_LatestParseApplied ==
    [][\A e \in Events :
          (/\ ev[e].pc = "idle" /\ ev[e].completion_text # None
           /\ nfin' # nfin /\ ev'[e] # ev[e])
          => IF Contains(The(ev[e].completion_text), OpenBrackets)
             THEN InReconcile(e)'
                  => ev'[e].update_data =
                        Some([favour_change |->
                                ParsedResponses[The(ev[e].completion_text)].favour_change,
                              relationship_update |->
                                ParsedResponses[The(ev[e].completion_text)]
                                   .relationship_update])
             ELSE ~ InReconcile(e)']_vars

\* The value the priority chain gives event e, whose handler met the inputs
\* in: the user's value of the global file, when the plugin keeps one scope
\* per conversation and the file, readable, has one; else the admin default
\* for a bot administrator, a group owner or an envoy; else the default.
ChainValue(e, in) ==
    IF ~ is_global_favour /\ in.glob_ok /\ global_data[ev[e].sender] # None
    THEN The(global_data[ev[e].sender])
    ELSE IF \/ ev[e].sender \in admins_id
            \/ (in.ctx # None /\ The(in.ctx).role = "owner")
            \/ ev[e].sender \in favour_envoys
    THEN admin_default_favour
    ELSE default_favour

\* C17: for a user without a record, the value shown in the prompt and the
\* value a reconciliation starts from are those of the priority chain: the
\* global value first, then the admin default, then the default.
C17_InitialValueChain ==
    \A e \in Events :
        ev[e].initial # None
        => /\ ev[e].prompt # None
                => The(ev[e].prompt).current_favour = ChainValue(e, The(ev[e].initial))
           /\ ev[e].rc # None
                => The(ev[e].rc).old_favour = ChainValue(e, The(ev[e].initial))

\* The first user, a group owner with a value in the global file, asked in
\* per-conversation mode: the prompt shows the global value, and it is not
\* the admin default.
C17_GlobalBeforeAdminDefault ==
    \E e \in Events :
        /\ ev[e].pc = "llm" /\ ev[e].sender = U1 /\ ~ is_global_favour
        /\ ev[e].initial =
              Some([glob_ok |-> TRUE, ctx |-> Some([role |-> "owner", level |-> 0])])
        /\ global_data[U1] = Some(max_bound)
        /\ The(ev[e].prompt).current_favour = max_bound
        /\ max_bound # admin_default_favour

\* C18: the initial value a handler resolves is in min_bound..max_bound when
\* it is put into the prompt and when a reconciliation starts from it,
\* whichever step of the chain it comes from.
C18_InitialValueInRange ==
    \A e \in Events :
        ev[e].initial # None
        => /\ ev[e].prompt # None
                => /\ min_bound <= The(ev[e].prompt).current_favour
                   /\ The(ev[e].prompt).current_favour <= max_bound
           /\ ev[e].rc # None
                => /\ min_bound <= The(ev[e].rc).old_favour
                   /\ The(ev[e].rc).old_favour <= max_bound

\* The step in which the finalize hook of event e, having found no record,
\* writes the list, which still has none for its user, and the write reaches
\* the file.
CreatesRecord(e) ==
    /\ ReconcileWrites(e)
    /\ ev[e].initial # None
    /\ RecordOf(store, ev[e].sender) = None

\* The record of the user of event e in the next state has the initial
\* value plus the delta, clamped.
CreatedValue(e) ==
    /\ RecordOf(store', ev[e].sender) # None
    /\ The(RecordOf(store', ev[e].sender)).favour =
          Within(min_bound, max_bound,
                 ChainValue(e, The(ev[e].initial))
                   + The(ev[e].update_data).favour_change)

\* C19, without the revocation: the record created for a user without one has the
\* initial value plus the delta, clamped, and the relationship of the
\* update's event, or none when the update has no event.
C19_EventRelationshipKept ==
    [][\A e \in Events :
          CreatesRecord(e)
          => /\ CreatedValue(e)
             /\ The(RecordOf(store', ev[e].sender)).relationship =
                   (IF The(ev[e].update_data).relationship_update # None
                    THEN The(The(ev[e].update_data).relationship_update)
                    ELSE <<>>)]_vars

\* C19, with the revocation: the record created for a user without one has the initial
\* value plus the delta, clamped, and the relationship of the update's event
\* when there is one and the value is not below 0, and none otherwise.
C19_CreatedRecord ==
    [][\A e \in Events :
          CreatesRecord(e)
          => /\ CreatedValue(e)
             /\ The(RecordOf(store', ev[e].sender)).relationship =
                   (IF /\ The(ev[e].update_data).relationship_update # None
                       /\ The(RecordOf(store', ev[e].sender)).favour >= 0
                    THEN The(The(ev[e].update_data).relationship_update)
                    ELSE <<>>)]_vars

\* The envoy's first message was answered with an increase of 2: the record
\* created holds the admin default plus 2.
C19_EnvoyCreated ==
    /\ nfin > 0
    /\ ~ is_global_favour
    /\ store = <<Rec(UEnvoy, Origin, admin_default_favour + favour_increase_max - 1,
                     <<>>)>>

\* C20: a finalize hook goes on to write only when the value or the
\* relationship it ends with differs from the record it read or, without a
\* record, from the initial value and no relationship.
C20_WriteOnlyIfChanged ==
    [][\A e \in Events :
          (ev[e].pc = "fin_read" /\ ev'[e].pc = "upd_lock")
          => \/ The(ev'[e].rc).new_favour # The(ev'[e].rc).old_favour
             \/ The(ev'[e].rc).final_relationship # The(ev'[e].rc).old_relationship]_vars

\* An interior of a bracketed span that makes it an affinity tag: one of the
\* keyword pairs, in its order.
HasKeyword(s) ==
    \E a \in 1..Len(s), b \in 1..Len(s) :
        /\ a < b
        /\ \/ s[a] = hao /\ s[b] \in {gan, du}
           \/ s[a] = gan /\ s[b] = du

\* An interior that makes it a relationship tag: the marker, a name on one
\* line, a colon and a boolean literal, with blanks between them.
IsRelInterior(s) ==
    /\ Strip(s) # <<>>
    /\ Strip(s)[1] = MARK
    /\ \E c \in 2..Len(Strip(s)) :
          /\ Strip(s)[c] \in Colons
          /\ ~ Contains(Strip(SubSeq(Strip(s), 2, c - 1)), {"nl"})
          /\ Strip(SubSeq(Strip(s), c + 1, Len(Strip(s)))) \in {<<b>> : b \in BoolLiterals}

\* Position i of t lies in a tag: a bracketed span with no bracket inside
\* whose interior is that of an affinity or of a relationship tag.
InValidTag(t, i) ==
    \E j \in 1..i, k \in i..Len(t) :
        /\ j < k
        /\ t[j] \in OpenBrackets /\ t[k] \in CloseBrackets
        /\ \A x \in (j + 1)..(k - 1) : t[x] \notin Brackets
        /\ \/ HasKeyword(SubSeq(t, j + 1, k - 1))
           \/ IsRelInterior(SubSeq(t, j + 1, k - 1))

RECURSIVE OutsideValidTags(_, _)
OutsideValidTags(t, i) ==
    IF i > Len(t) THEN <<>>
    ELSE (IF InValidTag(t, i) THEN <<>> ELSE <<t[i]>>) \o OutsideValidTags(t, i + 1)

\* The chain that delivers t without its tags, every other bracketed span
\* kept.
WithoutValidTags(t) ==
    IF Strip(OutsideValidTags(t, 1)) = <<>> THEN <<>>
    ELSE <<Strip(OutsideValidTags(t, 1))>>

\* C26: cleaning is idempotent: a chain that has been cleaned is left as it
\* is when it is cleaned again.
C26_StripIdempotent ==
    [][nfin >= 1 => \A e \in Events : ev'[e].chain = ev[e].chain]_vars

\* C27: the cleaning removes every affinity and relationship tag of a text
\* and nothing else: brackets and bracketed words that are no tag stay as
\* they are, wherever they lie, and the text is trimmed.
C27_OnlyTagsRemoved ==
    [][\A e \in Events :
          ev[e].chain # <<>> /\ nfin' # nfin
          => ev'[e].chain = WithoutValidTags(ev[e].chain[1])]_vars

\* The commands that change the store or the cold-violence map, and the
\* least level each asks of its sender.
MutatingKinds == {"modify", "delete", "clear_conversation", "clear_all", "cancel"}

Floor(kind) ==
    CASE kind \in {"modify", "delete"} -> ADMIN
      [] kind = "clear_conversation" -> OWNER
      [] kind \in {"clear_all", "cancel"} -> SUPERUSER

\* The group-member lookup for sender u has answered ctx: it gives no role.
FailedLookup(u, ctx) ==
    \/ ctx = None
    \/ ~ IsIntString(u)
    \/ The(ctx).role \notin {"owner", "admin", "member"}

\* The level of sender u whose group-member lookup answers ctx.
SenderLevel(u, ctx) ==
    IF u \in admins_id THEN SUPERUSER
    ELSE IF FailedLookup(u, ctx) THEN UNKNOWN
    ELSE IF The(ctx).role = "owner" THEN OWNER
    ELSE IF The(ctx).role = "admin" THEN ADMIN
    ELSE IF The(ctx).level >= level_threshold THEN HIGH
    ELSE MEMBER

\* The handler of command e runs its first step.
HandlerStarts(e) == ev[e].pc = "cmd" /\ ev'[e].pc # "cmd"

\* C21: a mutating command whose sender is below the command's floor
\* (group-admin for modify and delete, group-owner for clear-conversation,
\* bot-superuser for clear-all and cancel) changes neither the store nor the
\* cold-violence map and is answered with the permission-denied reply.
C21_PermissionFloor ==
    [][\A e \in Events :
          /\ HandlerStarts(e)
          /\ ev[e].kind \in MutatingKinds
          /\ SenderLevel(ev[e].sender, The(ev[e].cmd).ctx) < Floor(ev[e].kind)
          => /\ store' = store
             /\ cold_violence_users' = cold_violence_users
             /\ ev'[e].pc = "idle"
             /\ ev'[e].sent = "denied"]_vars

C21_AdminDeniedClear ==
    \E e \in Events :
        /\ ev[e].kind = "clear_conversation"
        /\ ev[e].sent = "denied"
        /\ The(ev[e].cmd).ctx = Some([role |-> "admin", level |-> 0])

\* C22: when the group-member lookup of a sender who is not a bot-superuser
\* fails (it raises, the event has no group, the ids are no integers or the
\* role is unknown), every permission-gated command of the sender is denied
\* and the sender's initial value, unless the sender is an envoy, is the
\* default and not the admin default.
C22_FailClosed ==
    \A e \in Events :
        /\ /\ ev[e].cmd # None
           /\ ev[e].pc # "cmd"
           /\ ev[e].kind \in MutatingKinds
           /\ ev[e].sender \notin admins_id
           /\ FailedLookup(ev[e].sender, The(ev[e].cmd).ctx)
           => ev[e].sent = "denied"
        /\ /\ ev[e].prompt # None
           /\ ev[e].initial # None
           /\ ev[e].sender \notin admins_id \cup favour_envoys
           /\ FailedLookup(ev[e].sender, The(ev[e].initial).ctx)
           => The(ev[e].prompt).current_favour = default_favour

C22_LookupFailed ==
    /\ ev[1].kind = "modify" /\ ev[1].sent = "denied"
    /\ ev[1].sender = U1 /\ The(ev[1].cmd).ctx = None
    /\ ev[2].prompt # None /\ ev[2].initial # None
    /\ The(ev[2].initial).ctx = Some([role |-> "unknown", level |-> 0])

\* C29: a query command of a user whose cold violence has not expired is
\* answered with the refusal and shows no record, whoever its target is.
C29_QueryRefused ==
    [][\A e \in Events :
          /\ HandlerStarts(e)
          /\ ev[e].kind \in {"query_my", "query_user"}
          /\ InColdViolence(ev[e].sender)
          => /\ ev'[e].sent = "on_query"
             /\ ev'[e].shown = None]_vars

\* C30: the cancel command of a bot-superuser removes the cold-violence
\* entry of its target, expired or not, and changes nothing else, nothing at
\* all when the target has no entry; and a request of a user without an
\* entry goes on to the model call.
C30_CancelRemovesEntry ==
    [][\A e \in Events :
          /\ /\ HandlerStarts(e)
             /\ ev[e].kind = "cancel"
             /\ ev[e].sender \in admins_id
             => /\ cold_violence_users' =
                      [cold_violence_users EXCEPT ![The(ev[e].cmd).target] = None]
                /\ store' = store
                /\ cold_violence_users[The(ev[e].cmd).target] = None
                      => cold_violence_users' = cold_violence_users
          /\ /\ ev[e].pc = "req_gate" /\ ev'[e].pc # "req_gate"
             /\ cold_violence_users[ev[e].sender] = None
             => ev'[e].pc = "req_inject" /\ ~ ev'[e].stopped]_vars

C30_CancelledThenServed ==
    /\ ev[1].kind = "cancel" /\ ev[1].sent = "cancelled"
    /\ The(ev[1].cmd).target = U1
    /\ ev[2].sender = U1 /\ ev[2].pc = "llm"
    /\ now < cold_violence_duration_minutes

\* C23: the clear of all records truncates the store only when it has
\* written a backup of the records the store holds, and a clear that
\* reports failure leaves the store as it is.
C23_BackupBeforeTruncate ==
    [][\A e \in Events :
          ev[e].kind = "clear_all" /\ ev'[e] # ev[e]
          => /\ store' # store => ev[e].backup = Some(store)
             /\ ev'[e].sent = "failed" => store' = store]_vars

\* C24: update_user_favour for a user leaves the records of every other
\* key as they are, whether its read and its write succeed or fail.
C24_OtherRecordsKept ==
    [][\A e \in Events :
          ev[e].pc \in {"upd_lock", "upd_commit"} /\ ev'[e] # ev[e]
          => Others(store', Strip(The(ev[e].target)), _get_session_id(ev[e]))
                = Others(store, Strip(The(ev[e].target)), _get_session_id(ev[e]))]_vars

\* C25: while an operation holds the lock, between its read of the store and
\* its write, nothing else writes the store.
C25_LockedStore ==
    [][lock # 0 /\ lock' = lock => store' = store]_vars

\* The chain the finalize hook of event e is cleaning.
HookChain(e) ==
    IF ev[e].pc = "idle" THEN <<The(ev[e].completion_text)>> ELSE ev[e].chain

\* The finalize hook of chat message e returns.
HookReturns(e) ==
    /\ ev[e].kind = "chat"
    /\ \/ ev[e].pc \in {"fin_read", "upd_lock", "upd_commit"}
       \/ ev[e].pc = "idle" /\ ev[e].completion_text # None /\ nfin' # nfin
    /\ ev'[e].pc = "idle"

\* C28: every finalize hook that meets a chain returns with the chain
\* cleaned (with the trigger reply, when it has armed cold violence):
\* without a parked update, with one that changes nothing, with one that is
\* written and with one whose update raises.
C28_AlwaysCleaned ==
    [][\A e \in Events :
          HookReturns(e)
          => ev'[e].chain \in {CleanChain(HookChain(e)),
                               CleanChain(Append(HookChain(e), TriggerMessage))}]_vars

C28_CleanedAfterRaise ==
    \E e \in Events :
        /\ ev[e].kind = "chat" /\ ev[e].pc = "idle"
        /\ ev[e].error
        /\ ev[e].chain = <<<<"x">>>>

\* ------------------------------------------------------------------ C31

\* The time left of the entry of user u.
Remaining(u) == The(cold_violence_users[u]) - now

\* C31: the map holds one expiry per user; an entry never has more than the
\* configured duration left; and the arming of a user, with or without an
\* entry, sets the expiry to now plus the duration, never before the expiry
\* the user had.
C31_RearmResets ==
    /\ [](\A u \in UserIds :
            cold_violence_users[u] # None
            => Remaining(u) <= cold_violence_duration_minutes)
    /\ [][\A u \in UserIds :
            (/\ cold_violence_users'[u] # cold_violence_users[u]
             /\ cold_violence_users'[u] # None)
            => /\ cold_violence_users'[u] = Some(now + cold_violence_duration_minutes)
               /\ cold_violence_users[u] # None
                     => The(cold_violence_users'[u]) > The(cold_violence_users[u])]_vars

\* Both messages of a user have armed cold violence, the second half a
\* duration after the first and before the first entry's expiry.
C31_RearmedWhileActive ==
    /\ \A e \in Events :
          /\ ev[e].kind = "chat" /\ ev[e].pc = "idle" /\ ev[e].sender = U1
          /\ ev[e].chain # <<>>
          /\ ev[e].chain[Len(ev[e].chain)] = Strip(TriggerMessage)
    /\ now = cold_violence_duration_minutes \div 2
    /\ cold_violence_users[U1] = Some(now + cold_violence_duration_minutes)

\* ------------------------------------------------------------------ C32

\* The request of event e goes to the model in this step.
RequestGoes(e) == ev[e].pc = "req_inject" /\ ev'[e].pc = "llm"

\* Record r belongs to the scope the plugin works in and holds an exclusive
\* relationship.
HoldsExclusive(r) ==
    /\ r.session_id = _get_session_id(NewEvent)
    /\ r.relationship # <<>>
    /\ \E k \in 1..Len(r.relationship) : r.relationship[k] \in EXCLUSIVE_RELATIONSHIPS

\* The relationship and user id of the records of a list that hold one, in
\* the order of the list.
RECURSIVE Surfaced(_)
Surfaced(data) ==
    IF data = <<>> THEN <<>>
    ELSE (IF HoldsExclusive(Head(data))
          THEN <<Head(data).relationship \o Head(data).userid>> ELSE <<>>)
         \o Surfaced(Tail(data))

ListRun(records) == ImportList(records, store)

MapRun(records) == ImportMap(records, global_data, GlobalKeys)

\* The rows of a table have pairwise different keys from row n on, and none
\* of them has the key of a row before n.
NewKeysFrom(records, n) ==
    \A i \in n..Len(records) : \A j \in 1..(i - 1) :
        ~ (/\ records[i].user_id = records[j].user_id
           /\ records[i].session_id = records[j].session_id)

\* C33: a run of the importer keeps every row of the table as it is and adds
\* no row whose (user_id, scope) the table or the run has already; and a
\* second run on the same file, after a first one that has added its rows,
\* adds nothing.
C33_ImporterIdempotent ==
    /\ [](/\ ListRun(ListRun(favour_records)) = ListRun(favour_records)
          /\ MapRun(MapRun(favour_records)) = MapRun(favour_records))
    /\ [][/\ Len(favour_records') >= Len(favour_records)
          /\ \A i \in 1..Len(favour_records) : favour_records'[i] = favour_records[i]
          /\ NewKeysFrom(favour_records', Len(favour_records) + 1)]_vars

\* The importer has added the items of a list that is still in place (its
\* move to the backup has failed), one of them the second of its key, to a
\* table that had a row already: the next run meets every key.
C33_RunAgain ==
    /\ Len(store) = 5
    /\ Len(favour_records) = 4
    /\ favour_records[1] = FavourRecord(U1, Origin, 4, <<"x">>, TRUE)
    /\ \A i \in 1..Len(store) :
          store[i].userid # <<>>
          => RowsOf(favour_records, store[i].userid,
                    ImportedScope(store[i].session_id)) # {}

\* C34: every row of the table has a value within min_val..max_val.
C34_RowsInRange ==
    \A i \in 1..Len(favour_records) :
        min_val <= favour_records[i].favour /\ favour_records[i].favour <= max_val

\* Item i of the list is the first of its user that was written without a
\* conversation.
FirstGlobalItem(i) ==
    /\ store[i].userid # <<>>
    /\ store[i].session_id = NoSession
    /\ \A j \in 1..(i - 1) :
          ~ (/\ store[j].userid = store[i].userid
             /\ store[j].session_id \in {NoSession, ""})

\* C39: when the importer has moved the list, every record the list held
\* with a null session_id, whose user had no row in the global scope, is
\* what get_favour(user, None) returns, with its value and relationship.
C39_GlobalRoundTrip ==
    [][store' # store
       => \A i \in 1..Len(store) :
             (/\ FirstGlobalItem(i)
              /\ get_favour(favour_records, store[i].userid, None) = None)
             => /\ get_favour(favour_records', store[i].userid, None) # None
                /\ The(get_favour(favour_records', store[i].userid, None)).favour
                      = store[i].favour
                /\ The(get_favour(favour_records', store[i].userid, None)).relationship
                      = store[i].relationship]_vars

\* C35: cold violence is keyed by the user alone.  Whatever the conversation
\* of a message, its request is stopped exactly when its sender's entry has
\* not expired, and a query of one's own favour is refused exactly then; an
\* entry is set only for the sender of the message whose finalize hook
\* reconciles, whatever its conversation; the cancel command that answers
\* "cancelled" removes the target's one entry, so that no conversation
\* gates the target afterwards; and no user's entry stops another user.
C35_KeyedByUser ==
    [][\A e \in Events :
          /\ (ev[e].pc = "req_gate" /\ ev'[e].pc # "req_gate")
             => (ev'[e].stopped <=> InColdViolence(ev[e].sender))
          /\ (ev[e].pc = "cmd" /\ ev[e].kind = "query_my" /\ ev'[e].pc # "cmd")
             => ((ev'[e].sent = "on_query") <=> InColdViolence(ev[e].sender))
          /\ (ev[e].pc = "cmd" /\ ev[e].kind = "cancel" /\ ev'[e].sent = "cancelled")
             => /\ cold_violence_users'[Strip(The(ev[e].cmd).target)] = None
                /\ \A d \in Events :
                      (ev'[d].pc = "req_gate"
                       /\ ev'[d].sender = Strip(The(ev[e].cmd).target))
                      => ~ (/\ cold_violence_users'[ev'[d].sender] # None
                            /\ now' < The(cold_violence_users'[ev'[d].sender]))
          /\ \A u \in UserIds :
                (cold_violence_users'[u] # cold_violence_users[u]
                 /\ cold_violence_users'[u] # None)
                => \E d \in Events : ev[d].kind = "chat" /\ ev[d].sender = u
                                      /\ ev[d].pc \in {"fin_read", "upd_commit", "upd_lock"}
                                      /\ ev'[d].pc = "idle"]_vars

\* A request of the first user is stopped in a conversation other than the
\* one whose reconciliation armed the cold violence.
C35_StoppedElsewhere ==
    \E e \in Events \ {1} :
        /\ ev[e].kind = "chat" /\ ev[e].stopped
        /\ ev[e].sender = ev[1].sender
        /\ ev[e].unified_msg_origin # ev[1].unified_msg_origin
        /\ ev[1].kind = "chat" /\ ev[1].pc = "idle"

\* The finalize hook of message e writes the list in this step.
FinalizeWrites(e) ==
    /\ ev[e].kind = "chat" /\ ev[e].pc = "upd_commit"
    /\ ev'[e].pc # "upd_commit"
    /\ store' # store

\* C36: while a user's cold violence is active and has not expired, no
\* finalize hook changes the list for that user, not even the hook of a
\* message whose request was made before the cold violence was armed.
C36_NoChangeWhileActive ==
    [][\A e \in Events :
          (FinalizeWrites(e) /\ InColdViolence(ev[e].sender))
          => RecordOf(store', ev[e].sender) = RecordOf(store, ev[e].sender)]_vars

\* C36, amended: a request that meets the gate while the sender's cold
\* violence has not expired is stopped, and a stopped message stays as it
\* is with nothing parked for it; the finalize hooks that write while the
\* cold violence is active are those of messages that were let through the
\* gate and whose parked update they have taken.
C36_OnlyLetThrough ==
    [][\A e \in Events :
          /\ (ev[e].pc = "req_gate" /\ InColdViolence(ev[e].sender) /\ ev'[e] # ev[e])
             => (ev'[e].pc = "stopped" /\ ev'[e].stopped /\ pending_updates'[e] = None
                 /\ store' = store)
          /\ ev[e].pc = "stopped"
             => (ev'[e] = ev[e] /\ pending_updates'[e] = None)
          /\ (FinalizeWrites(e) /\ InColdViolence(ev[e].sender))
             => (~ ev[e].stopped /\ ev[e].update_data # None /\ ev[e].rc # None
                 /\ pending_updates[e] = None)]_vars

\* The finalize hook of a message that was let through is about to write a
\* new value for a user whose cold violence is active.
C36_InFlightWrites ==
    \E e \in Events :
        /\ ev[e].kind = "chat" /\ ev[e].pc = "upd_commit"
        /\ InColdViolence(ev[e].sender)
        /\ RecordOf(store, ev[e].sender) # None
        /\ ev[e].arg_favour # None
        /\ The(ev[e].arg_favour) # The(RecordOf(store, ev[e].sender)).favour

\* C37: whatever updates, deletions and clears have run on haogan.json, one
\* beside the other, the list holds at most one record of a user in a
\* conversation.
C37_OneRecordPerKey ==
    \A i \in 1..Len(store), j \in 1..Len(store) :
        (store[i].userid = store[j].userid /\ store[i].session_id = store[j].session_id)
        => i = j

\* Two updates of one user in one conversation have run, the second from
\* its start to its reply while the handler of the first has yet to reply,
\* and the list holds the user's one record.
C37_TwoUpdatesDone ==
    /\ ev[1].kind = "modify" /\ ev[1].pc = "mod_reply"
    /\ ev[2].kind = "modify" /\ ev[2].sent = "modified"
    /\ The(ev[1].cmd).target = The(ev[2].cmd).target
    /\ ev[1].unified_msg_origin = ev[2].unified_msg_origin
    /\ FindRecord(store, The(ev[1].cmd).target, ev[1].unified_msg_origin) # None
    /\ Len(store) = 1

\* C38: for a user without a record in the conversation, the favour the
\* query commands show is the initial value the prompt and the first
\* reconciliation use for that user: the global value, else the
\* administrators' default for an owner or an envoy, else the default.  The
\* group-member lookup answers for the sender what it answered for the
\* command, and for another target whatever it may.
C38_QueryShowsInitial ==
    [][\A e \in Events :
          (/\ ev[e].pc = "cmd" /\ ev[e].kind \in {"query_my", "query_user"}
           /\ ev'[e].sent = "favour" /\ ev'[e].shown # None)
          => LET target_uid == IF ev[e].kind = "query_my" THEN ev[e].sender
                               ELSE Strip(The(ev[e].cmd).target)
                 contexts == IF target_uid = ev[e].sender THEN {The(ev[e].cmd).ctx}
                             ELSE PermContexts
             IN  FindRecord(store, target_uid, _get_session_id(ev[e])) = None
                 => \E glob_ok \in BOOLEAN, ctx \in contexts :
                       The(ev'[e].shown).favour = _get_initial_favour(target_uid, glob_ok, ctx)]_vars

====
